---- MODULE Spec2Model ----
(***************************************************************************)
(* Model of the Workwize synchronization pipeline (db-build-scripts):      *)
(* the orchestrator populate_db_main.py, the paginated collection           *)
(* fetchers, and the transform / foreign-key validation / upsert steps of   *)
(* the population jobs.                                                     *)
(***************************************************************************)
EXTENDS Integers, Sequences, FiniteSets, TLC

VARIABLES
    \* ---- orchestrator (populate_db_main.main) ----
    opc,        \* position in main: "loop", "running", "summary", "exited"
    idx,        \* enumerate(SCRIPTS, 1) index of the current script
    results,    \* the results list: one [name, success] per script run
    launched,   \* script files handed to subprocess.run, in order
    exitStatus, \* argument of sys.exit (NoExit until main exits)
    committed,  \* rows each script's child process has committed so far
    \* ---- one collection job: fetch_<kind> and its main ----
    fkind,      \* which job runs: "assets", "offices", ...
    fpc,        \* "request" (loop head), "exited" (main is over)
    page,       \* page
    all,        \* all_<kind>: the records collected so far / returned
    requests,   \* page numbers requested, in order
    responses,  \* the responses received, in order
    jobExit,    \* exit status of the job's process (NoExit while running)
    written,    \* records whose rows populate_<kind> committed
    \* ---- the database and the population jobs run against it ----
    db,         \* the tables: for each table a function id -> row
    run,        \* what the job that ran last did (its local variables)
    schema,     \* constraints the database enforces (its DDL is not in src)
    \* ---- the timestamp columns of one table over successive writes ----
    clock,      \* datetime.now() of the next write
    ttable,     \* the table observed
    trows,      \* its rows: id -> the id and the date columns
    tlast,      \* the last write: the script, its batch, the rows it hit
    \* ---- one application of a pure transform ----
    pfn,        \* the function applied
    parg,       \* its argument
    pres,       \* its result, once pdone
    pdone,      \* whether it has been applied
    \* ---- the countries table and the country job ----
    countries,  \* the rows of the countries table
    crun,       \* what the last country job did
    \* ---- one job that fetches per item on a thread pool ----
    wjob,       \* the job: "assets", "employees", "missing"
    wpc,        \* "collect" (the as_completed loop), "done"
    witems,     \* the items submitted to the executor, with their fetches
    wpending,   \* ids of the futures as_completed has not yielded yet
    wresults,   \* the list built by the loop, in completion order
    \* ---- one worker of a pool calling its fetch function ----
    rfn,        \* the fetch function the worker calls
    rpc,        \* "take" (between two calls), "responded" (inside a call)
    rout,       \* what the request of the current call did
    rlog,       \* what the worker has done so far: requests and sleeps
    \* ---- one job process from its start to its exit ----
    sjob,       \* the script that runs
    senv,       \* os.getenv of WORKWIZE_KEY and of DATABASE_URL
    spc,        \* "import", "main", "run", "exited"
    sio,        \* the requests and database calls made so far
    sexit       \* the exit status of the process

orchVars == <<opc, idx, results, launched, exitStatus, committed>>

fetchVars == <<fkind, fpc, page, all, requests, responses, jobExit, written>>

\* The variables an orchestrator step, and a job step, leave alone.
syncVars == <<db, run, schema>>

stampVars == <<clock, ttable, trows, tlast>>

\* The variables of the models that follow the jobs' model.
pureVars == <<pfn, parg, pres, pdone>>

countryVars == <<countries, crun>>

workVars == <<wjob, wpc, witems, wpending, wresults>>

rateVars == <<rfn, rpc, rout, rlog>>

startVars == <<sjob, senv, spc, sio, sexit>>

restVars == <<stampVars, pureVars, countryVars, workVars, rateVars, startVars>>

notOrch == <<fetchVars, syncVars, restVars>>

notFetch == <<orchVars, syncVars, restVars>>

notSync == <<orchVars, fetchVars, restVars>>

notStamp == <<orchVars, fetchVars, syncVars, pureVars, countryVars, workVars,
             rateVars, startVars>>

notPure == <<orchVars, fetchVars, syncVars, stampVars, countryVars, workVars,
             rateVars, startVars>>

notCountry == <<orchVars, fetchVars, syncVars, stampVars, pureVars, workVars,
             rateVars, startVars>>

\* A pooled job works on the database too.
notWork == <<orchVars, fetchVars, stampVars, pureVars, countryVars, rateVars,
            startVars>>

notRate == <<orchVars, fetchVars, syncVars, stampVars, pureVars, countryVars,
            workVars, startVars>>

notStart == <<orchVars, fetchVars, syncVars, stampVars, pureVars, countryVars,
             workVars, rateVars>>

vars == <<opc, idx, results, launched, exitStatus, committed,
          fkind, fpc, page, all, requests, responses, jobExit, written,
          db, run, schema, clock, ttable, trows, tlast,
          pfn, parg, pres, pdone, countries, crun,
          wjob, wpc, witems, wpending, wresults, rfn, rpc, rout, rlog,
          sjob, senv, spc, sio, sexit>>

Null == "null"

NoExit == -1

\* No write has been observed.
NoWrite == [writer |-> "none", batch |-> << >>, hit |-> {}]

StampIdle ==
    /\ clock = 0
    /\ ttable = "none"
    /\ trows = << >>
    /\ tlast = NoWrite

PureIdle ==
    /\ pfn = "none"
    /\ parg = << >>
    /\ pres = << >>
    /\ pdone = FALSE

CountryIdle ==
    /\ countries = {}
    /\ crun = [kind |-> "none"]

WorkIdle ==
    /\ wjob = "none"
    /\ wpc = "idle"
    /\ witems = << >>
    /\ wpending = {}
    /\ wresults = << >>

RateIdle ==
    /\ rfn = "none"
    /\ rpc = "idle"
    /\ rout = "none"
    /\ rlog = << >>

StartIdle ==
    /\ sjob = "none"
    /\ senv = << >>
    /\ spc = "idle"
    /\ sio = << >>
    /\ sexit = NoExit

RestIdle ==
    StampIdle /\ PureIdle /\ CountryIdle /\ WorkIdle /\ RateIdle /\ StartIdle

(***************************************************************************)
(* Bounds of the model.                                                    *)
(***************************************************************************)
MaxRows == 1

\* Pages the modelled server is asked for at most, and records per page.
MaxPages == 2

MaxRecs == 1

\* The clock value at which the observation of a table's writes stops.
MaxClock == 7

\* Longest raw name and raw email (in characters) given to the redaction.
MaxNameLen == 2

MaxEmailLen == 3

\* Longest free text, in segments, given to the scrubbers.
MaxSegs == 2

\* Most employee addresses the country job reads in one run.
MaxAddresses == 2

\* Requests one worker issues.
MaxRequests == 3

(***************************************************************************)
(* populate_db_main.py                                                     *)
(***************************************************************************)
SCRIPTS ==
    << [name |-> "Warehouses", script |-> "populate_warehouses.py"],
       [name |-> "Offices",    script |-> "populate_offices.py"],
       [name |-> "Employees",  script |-> "populate_employees.py"],
       [name |-> "Addresses",  script |-> "populate_addresses.py"],
       [name |-> "Assets",     script |-> "populate_assets.py"],
       [name |-> "Orders",     script |-> "populate_orders.py"] >>

ScriptNames == {SCRIPTS[i].name : i \in 1..Len(SCRIPTS)}

\* Return codes a child process can end with: 0, or non-zero (sys.exit(1) of
\* a job, 2 for an interpreter error).
ReturnCodes == {0, 1, 2}

\* run_script's verdict on a finished child: success iff returncode is 0.
RunScriptSuccess(returncode) == returncode = 0

\* The loop of main after results.append: break on failure, otherwise the
\* next script, and the summary once the for loop is exhausted.
AfterScriptNoBreak(success, i) ==
    IF i + 1 > Len(SCRIPTS) THEN [pc |-> "summary", idx |-> i]
    ELSE [pc |-> "loop", idx |-> i + 1]

AfterScript(success, i) ==
    IF ~success THEN [pc |-> "summary", idx |-> i]
    ELSE IF i + 1 > Len(SCRIPTS) THEN [pc |-> "summary", idx |-> i]
    ELSE [pc |-> "loop", idx |-> i + 1]

ExitCodeAlwaysZero(res) == 0

\* all(r["success"] for r in results) decides the exit code.
ExitCodeOf(res) ==
    IF \A k \in 1..Len(res) : res[k].success THEN 0 ELSE 1

\* successful = sum(1 for r in results if r["success"])
Successful(res) == Cardinality({k \in 1..Len(res) : res[k].success})

OrchInit ==
    /\ opc = "loop"
    /\ idx = 1
    /\ results = << >>
    /\ launched = << >>
    /\ exitStatus = NoExit
    /\ committed = [n \in ScriptNames |-> {}]

\* main, loop head: print_section and the call of run_script, up to
\* subprocess.run having been handed the script.
StartStage ==
    /\ opc = "loop"
    /\ idx <= Len(SCRIPTS)
    /\ launched' = Append(launched, SCRIPTS[idx].script)
    /\ opc' = "running"
    /\ UNCHANGED <<idx, results, exitStatus, committed>>
    /\ UNCHANGED notOrch

RecordResult(success) ==
    /\ results' = Append(results, [name |-> SCRIPTS[idx].name, success |-> success])
    /\ opc' = AfterScript(success, idx).pc
    /\ idx' = AfterScript(success, idx).idx

\* subprocess.run returns: the child ran, upserted and committed some rows of
\* its own tables (a job commits before it can fail later, and never deletes),
\* and ended with a return code.
ScriptReturns ==
    /\ opc = "running"
    /\ \E rc \in ReturnCodes, rows \in SUBSET (1..MaxRows) :
          /\ committed' = [committed EXCEPT ![SCRIPTS[idx].name] = @ \cup rows]
          /\ RecordResult(RunScriptSuccess(rc))
    /\ UNCHANGED <<launched, exitStatus>>
    /\ UNCHANGED notOrch

\* subprocess.run raises (the except branch of run_script): no child ran.
ScriptLaunchRaises ==
    /\ opc = "running"
    /\ RecordResult(FALSE)
    /\ UNCHANGED <<launched, exitStatus, committed>>
    /\ UNCHANGED notOrch

\* The summary and sys.exit.
ExitMain ==
    /\ opc = "summary"
    /\ exitStatus' = ExitCodeOf(results)
    /\ opc' = "exited"
    /\ UNCHANGED <<idx, results, launched, committed>>
    /\ UNCHANGED notOrch

OrchNext ==
    \/ StartStage
    \/ ScriptReturns
    \/ ScriptLaunchRaises
    \/ ExitMain

OrchIdle ==
    /\ opc = "idle"
    /\ idx = 0
    /\ results = << >>
    /\ launched = << >>
    /\ exitStatus = NoExit
    /\ committed = [n \in ScriptNames |-> {}]

(***************************************************************************)
(* The paginated collection fetchers fetch_assets, fetch_employees,        *)
(* fetch_warehouses, fetch_offices, fetch_orders, fetch_products,          *)
(* fetch_offboards, each with the main of its script.                      *)
(***************************************************************************)
FetcherKinds ==
    {"assets", "employees", "warehouses", "offices", "orders", "products",
     "offboards"}

\* dict.get of a key that is missing gives None; None is written Absent for
\* the numeric meta fields.
Absent == -1

\* HTTP statuses of a page response: success, not found, server error.
Statuses == {200, 404, 500}

\* The JSON body of a 200 response: an object with "data", an object with
\* "value", an object with neither (taken as one record), or a bare array.
DictShapes == {"data", "value", "object"}

\* links.next: key missing, null, or the URL of the next page.
NextValues == {"absent", "null", "url"}

\* meta: missing altogether, or carrying current_page (the page asked for)
\* with or without last_page.
MetaValues(p) ==
    {[cur |-> Absent, last |-> Absent]}
        \cup {[cur |-> p, last |-> l] : l \in {Absent} \cup (0..MaxPages)}

ErrorResponse(st) ==
    [status |-> st, shape |-> "none", n |-> 0, next |-> "absent",
     cur |-> Absent, last |-> Absent]

Responses(p) ==
    {ErrorResponse(st) : st \in Statuses \ {200}}
        \cup {[status |-> 200, shape |-> "array", n |-> k, next |-> "absent",
               cur |-> Absent, last |-> Absent] : k \in 0..MaxRecs}
        \cup {[status |-> 200, shape |-> sh, n |-> k, next |-> nx,
               cur |-> m.cur, last |-> m.last] :
                 sh \in DictShapes \ {"object"}, k \in 0..MaxRecs,
                 nx \in NextValues, m \in MetaValues(p)}
        \cup {[status |-> 200, shape |-> "object", n |-> 0, next |-> nx,
               cur |-> m.cur, last |-> m.last] :
                 nx \in NextValues, m \in MetaValues(p)}

\* The records of a body: data['data'], data['value'], [data], or the array.
\* Record i of page p is <<p, i>>; an object taken as a record is <<p, 0>>.
Items(resp, p) ==
    IF resp.shape = "object" THEN << <<p, 0>> >>
    ELSE [i \in 1..resp.n |-> <<p, i>>]

\* Python truthiness of links.get('next') and of meta.get('last_page').
NextTruthy(resp) == resp.next = "url"

LastTruthy(resp) == resp.last # Absent /\ resp.last # 0

\* current_page = meta.get('current_page', page)
CurrentPage(resp, p) == IF resp.cur = Absent THEN p ELSE resp.cur

\* if not links.get('next') or (last_page and current_page >= last_page): break
StopRuleNoLast(resp, p) == ~NextTruthy(resp)

StopRule(resp, p) ==
    \/ ~NextTruthy(resp)
    \/ (LastTruthy(resp) /\ CurrentPage(resp, p) >= resp.last)

\* fetch_offices alone returns [] on a 404, and catches RequestException
\* (raise_for_status of any other error status) to return [] as well.
Returns404Empty(kind) == kind = "offices"

CatchesRequestException(kind) == kind = "offices"

\* What one pass of the while loop makes of a response: the new collection
\* and whether the fetcher goes on, returns, or raises.
CollectArray(acc, resp, p) == Items(resp, p)

CollectDict(acc, resp, p) == acc \o Items(resp, p)

LoopPass(kind, acc, resp, p) ==
    IF resp.status = 404 /\ Returns404Empty(kind)
      THEN [outcome |-> "return", all |-> << >>]
    ELSE IF resp.status # 200
      THEN IF CatchesRequestException(kind)
             THEN [outcome |-> "return", all |-> << >>]
             ELSE [outcome |-> "raise", all |-> acc]
    ELSE IF resp.shape = "array"
      THEN [outcome |-> "return", all |-> CollectArray(acc, resp, p)]
    ELSE IF StopRule(resp, p)
      THEN [outcome |-> "return", all |-> CollectDict(acc, resp, p)]
    ELSE [outcome |-> "continue", all |-> CollectDict(acc, resp, p)]

\* main of the job around the fetch: a RequestException exits 1; an empty
\* result returns without touching the database; otherwise populate_<kind>
\* commits the batch, or rolls back and re-raises on a database error.
MainExit(outcome, recs, dbOk) ==
    IF outcome = "raise" THEN 1
    ELSE IF recs = << >> THEN 0
    ELSE IF dbOk THEN 0 ELSE 1

MainWritten(outcome, recs, dbOk) ==
    IF outcome = "return" /\ recs # << >> /\ dbOk THEN recs ELSE << >>

FetchInit ==
    /\ fkind \in FetcherKinds
    /\ fpc = "request"
    /\ page = 1
    /\ all = << >>
    /\ requests = << >>
    /\ responses = << >>
    /\ jobExit = NoExit
    /\ written = << >>

FetchIdle ==
    /\ fkind = "none"
    /\ fpc = "idle"
    /\ page = 0
    /\ all = << >>
    /\ requests = << >>
    /\ responses = << >>
    /\ jobExit = NoExit
    /\ written = << >>

\* One pass of the while loop that asks for the next page.
FetchPageContinue ==
    /\ fpc = "request"
    /\ page <= MaxPages
    /\ \E resp \in Responses(page) :
          LET r == LoopPass(fkind, all, resp, page) IN
          /\ r.outcome = "continue"
          /\ requests' = Append(requests, page)
          /\ responses' = Append(responses, resp)
          /\ all' = r.all
          /\ page' = page + 1
    /\ UNCHANGED <<fkind, fpc, jobExit, written>>
    /\ UNCHANGED notFetch

\* The last pass of the while loop (break, return or raise) and the rest of
\* main: the batch write and the exit.
FetchPageFinish ==
    /\ fpc = "request"
    /\ page <= MaxPages
    /\ \E resp \in Responses(page), dbOk \in BOOLEAN :
          LET r == LoopPass(fkind, all, resp, page) IN
          /\ r.outcome # "continue"
          /\ requests' = Append(requests, page)
          /\ responses' = Append(responses, resp)
          /\ all' = r.all
          /\ jobExit' = MainExit(r.outcome, r.all, dbOk)
          /\ written' = MainWritten(r.outcome, r.all, dbOk)
          /\ fpc' = IF r.outcome = "raise" THEN "failed" ELSE "returned"
    /\ UNCHANGED <<fkind, page>>
    /\ UNCHANGED notFetch

FetchNext ==
    \/ FetchPageContinue
    \/ FetchPageFinish

(***************************************************************************)
(* The database and the write side of the jobs: transform, foreign-key     *)
(* validation and upsert.  A table is a function from the primary key id   *)
(* to the row; a row is a record of the columns modelled.  Ids are the     *)
(* strings str(...) makes of the upstream ids.                             *)
(***************************************************************************)
EmptyTable == [k \in {} |-> k]

EmptyDb ==
    [employees |-> EmptyTable, addresses |-> EmptyTable,
     offices |-> EmptyTable, warehouses |-> EmptyTable,
     assets |-> EmptyTable, orders |-> EmptyTable, offboards |-> EmptyTable]

\* Python truthiness of an id or a string: None and '' are falsy.
Truthy(v) == v # Null /\ v # ""

Ids(table) == DOMAIN table

\* The DDL is not part of the sources: the database may or may not enforce
\* the foreign keys, and offboards."employeeId" may or may not be NOT NULL.
Schemas == [fk : BOOLEAN, offboardEmployeeRequired : BOOLEAN]

\* INSERT ... ON CONFLICT (id) DO UPDATE SET <cols> = EXCLUDED.<cols>:
\* a new id inserts the row, an existing id overwrites the listed columns.
UpsertRow(old, new, cols) ==
    [c \in DOMAIN new |-> IF c \in cols THEN new[c] ELSE old[c]]

ReplaceTable(table, rows, cols) == rows

Upsert(table, rows, cols) ==
    [id \in Ids(table) \cup Ids(rows) |->
        IF id \notin Ids(rows) THEN table[id]
        ELSE IF id \in Ids(table) THEN UpsertRow(table[id], rows[id], cols)
        ELSE rows[id]]

\* The rows of the table that an upsert of `rows` hits (the conflict rows).
ConflictRows(table, rows) ==
    [id \in Ids(table) \cap Ids(rows) |-> table[id]]

\* A foreign-key column of a batch refers only to NULL or to present ids.
RefsOk(rows, col, targets) ==
    \A id \in Ids(rows) : rows[id][col] = Null \/ rows[id][col] \in targets

\* The batches a job can be handed: any subset of the upstream ids, each
\* with one of the upstream records possible for it (inputs[id]).
RECURSIVE BatchesOn(_, _)
BatchesOn(S, inputs) ==
    IF S = {} THEN {EmptyTable}
    ELSE LET i == CHOOSE j \in S : TRUE
         IN  {b @@ (i :> x) : b \in BatchesOn(S \ {i}, inputs), x \in inputs[i]}

Batches(inputs) == UNION {BatchesOn(S, inputs) : S \in SUBSET DOMAIN inputs}

NoRun == [kind |-> "none"]

(***************************************************************************)
(* populate_assets.py                                                      *)
(***************************************************************************)
\* asset['location'] / the detail's location: missing, or an object with a
\* location_type tag and a location_id.
NoLocation == [location_type |-> "missing", location_id |-> Null]

HasLocation(loc) == loc # NoLocation

Location(type, id) == [location_type |-> type, location_id |-> id]

\* fetch_asset_detail: None on a non-200 status, a timeout or an exception,
\* otherwise the detail object, which may or may not carry a location.
DetailFailed == [ok |-> FALSE, location |-> NoLocation]

Detail(loc) == [ok |-> TRUE, location |-> loc]

\* fetch_and_transform: detailed_location = detailed_asset['location'] when
\* the detail was fetched and has one.
DetailedLocation(detail) ==
    IF detail.ok /\ HasLocation(detail.location) THEN detail.location
    ELSE NoLocation

\* transform_asset: the columns modelled are id, status (a column copied from
\* the record), assignedToId, officeId, warehouseId.
TransformAssetBothIds(asset, detailed_location) ==
    LET location_data ==
            IF HasLocation(detailed_location) THEN detailed_location
            ELSE asset.location
        location_id == location_data.location_id
    IN  [id |-> asset.id,
         status |-> asset.status,
         assignedToId |-> Null,
         officeId |-> IF Truthy(location_id) THEN location_id ELSE Null,
         warehouseId |-> IF Truthy(location_id) THEN location_id ELSE Null]

TransformAsset(asset, detailed_location) ==
    LET location_data ==
            IF HasLocation(detailed_location) THEN detailed_location
            ELSE asset.location
        location_type == location_data.location_type
        location_id == location_data.location_id
    IN  [id |-> asset.id,
         status |-> asset.status,
         assignedToId |->
            IF HasLocation(location_data) /\ location_type = "employee"
                 /\ Truthy(location_id)
              THEN location_id ELSE Null,
         officeId |->
            IF HasLocation(location_data) /\ location_type = "office"
                 /\ Truthy(location_id)
              THEN location_id ELSE Null,
         warehouseId |->
            IF HasLocation(location_data) /\ location_type # "office"
                 /\ location_type = "warehouse" /\ Truthy(location_id)
              THEN location_id ELSE Null]

FetchAndTransform(input) ==
    TransformAsset([id |-> input.id, status |-> input.status,
                    location |-> input.location],
                   DetailedLocation(input.detail))

\* The validation loop of populate_assets: an officeId / warehouseId that is
\* set and not among the existing ids becomes None and is counted.
OfficeInvalid(row, existing_office_ids) ==
    Truthy(row.officeId) /\ row.officeId \notin existing_office_ids

WarehouseInvalid(row, existing_warehouse_ids) ==
    Truthy(row.warehouseId) /\ row.warehouseId \notin existing_warehouse_ids

ValidateAssetKeepAll(row, existing_office_ids, existing_warehouse_ids) == row

ValidateAsset(row, existing_office_ids, existing_warehouse_ids) ==
    [row EXCEPT
        !.officeId =
            IF OfficeInvalid(row, existing_office_ids) THEN Null ELSE @,
        !.warehouseId =
            IF WarehouseInvalid(row, existing_warehouse_ids) THEN Null ELSE @]

InvalidOffices(asset_data, existing_office_ids) ==
    Cardinality({id \in Ids(asset_data) :
                    OfficeInvalid(asset_data[id], existing_office_ids)})

InvalidWarehouses(asset_data, existing_warehouse_ids) ==
    Cardinality({id \in Ids(asset_data) :
                    WarehouseInvalid(asset_data[id], existing_warehouse_ids)})

\* The ON CONFLICT (id) DO UPDATE SET list of the assets insert.
AssetUpdateCols == {"status", "assignedToId", "officeId", "warehouseId"}

\* The constraints a batch of asset rows meets in the database.
AssetsAccepted(rows, d, sch) ==
    sch.fk =>
        /\ RefsOk(rows, "assignedToId", Ids(d.employees))
        /\ RefsOk(rows, "officeId", Ids(d.offices))
        /\ RefsOk(rows, "warehouseId", Ids(d.warehouses))

\* main of populate_assets.py after the fetch: nothing to do for an empty
\* list; otherwise populate_assets fetches the details, transforms,
\* validates and upserts in one transaction, and a database error rolls
\* back, is re-raised and makes main exit 1.
AssetsJob(batch) ==
    LET asset_data == [id \in Ids(batch) |-> FetchAndTransform(batch[id])]
        existing_office_ids == Ids(db.offices)
        existing_warehouse_ids == Ids(db.warehouses)
        validated ==
            [id \in Ids(batch) |->
                ValidateAsset(asset_data[id], existing_office_ids,
                              existing_warehouse_ids)]
        accepted == AssetsAccepted(validated, db, schema)
    IN  /\ db' = IF Ids(batch) # {} /\ accepted
                   THEN [db EXCEPT !.assets =
                            Upsert(@, validated, AssetUpdateCols)]
                   ELSE db
        /\ run' = [kind |-> "assets",
                   exit |-> IF Ids(batch) = {} \/ accepted THEN 0 ELSE 1,
                   transformed |-> asset_data,
                   submitted |-> validated,
                   prior |-> ConflictRows(db.assets, validated),
                   invalid_offices |->
                       InvalidOffices(asset_data, existing_office_ids),
                   invalid_warehouses |->
                       InvalidWarehouses(asset_data, existing_warehouse_ids)]
        /\ UNCHANGED schema
        /\ UNCHANGED notSync

(***************************************************************************)
(* populate_employees.py, populate_offices.py, populate_warehouses.py      *)
(***************************************************************************)
\* transform_employee: managerId, officeId from the record, addressId from
\* the address fetched for the employee (None when there is none).
TransformEmployee(employee, address_data) ==
    [id |-> employee.id,
     managerId |-> IF Truthy(employee.manager_id) THEN employee.manager_id
                   ELSE Null,
     officeId |-> IF Truthy(employee.office_id) THEN employee.office_id
                  ELSE Null,
     addressId |-> IF Truthy(address_data) THEN address_data ELSE Null]

EmployeeUpdateColsWithoutAddress == {"managerId", "officeId"}

\* The ON CONFLICT (id) DO UPDATE SET list of the employees insert.
EmployeeUpdateCols == {"managerId", "officeId", "addressId"}

AddressUpdateCols == {"city", "country"}

\* addresses_to_create: one address row per employee whose fetch gave one.
EmployeeAddresses(batch) ==
    [a \in {batch[id].address : id \in {i \in Ids(batch) : Truthy(batch[i].address)}}
        |-> [id |-> a, city |-> "Utrecht", country |-> "Netherlands"]]

EmployeesAccepted(rows, d, sch) ==
    sch.fk =>
        /\ RefsOk(rows, "managerId", Ids(d.employees) \cup Ids(rows))
        /\ RefsOk(rows, "officeId", Ids(d.offices))
        /\ RefsOk(rows, "addressId", Ids(d.addresses))

\* main of populate_employees.py after the fetch: the address rows are
\* upserted and committed first, then the employee rows; an error in the
\* second write rolls back that write only.
EmployeesJob(batch) ==
    LET employee_data ==
            [id \in Ids(batch) |->
                TransformEmployee(batch[id], batch[id].address)]
        withAddresses ==
            [db EXCEPT !.addresses =
                Upsert(@, EmployeeAddresses(batch), AddressUpdateCols)]
        accepted == EmployeesAccepted(employee_data, withAddresses, schema)
    IN  /\ db' = IF Ids(batch) = {} THEN db
                 ELSE IF accepted
                   THEN [withAddresses EXCEPT !.employees =
                            Upsert(@, employee_data, EmployeeUpdateCols)]
                 ELSE withAddresses
        /\ run' = [kind |-> "employees",
                   exit |-> IF Ids(batch) = {} \/ accepted THEN 0 ELSE 1,
                   submitted |-> employee_data]
        /\ UNCHANGED schema
        /\ UNCHANGED notSync

\* transform_office: addressId is the id of office['address'] or address_id.
TransformOffice(office) ==
    [id |-> office.id,
     addressId |-> IF Truthy(office.address) THEN office.address ELSE Null]

OfficeUpdateCols == {"addressId"}

OfficesAccepted(rows, d, sch) ==
    sch.fk => RefsOk(rows, "addressId", Ids(d.addresses))

OfficesJob(batch) ==
    LET office_data == [id \in Ids(batch) |-> TransformOffice(batch[id])]
        accepted == OfficesAccepted(office_data, db, schema)
    IN  /\ db' = IF Ids(batch) # {} /\ accepted
                   THEN [db EXCEPT !.offices =
                            Upsert(@, office_data, OfficeUpdateCols)]
                   ELSE db
        /\ run' = [kind |-> "offices",
                   exit |-> IF Ids(batch) = {} \/ accepted THEN 0 ELSE 1,
                   submitted |-> office_data]
        /\ UNCHANGED schema
        /\ UNCHANGED notSync

\* transform_warehouse: a warehouse with countries gets the address row
\* "warehouse_<id>", written through the job's cursor, as its addressId.
WarehouseAddressId(warehouse) ==
    IF warehouse.countries THEN "warehouse_" \o warehouse.id ELSE Null

TransformWarehouse(warehouse) ==
    [id |-> warehouse.id,
     code |-> warehouse.code,
     addressId |-> WarehouseAddressId(warehouse)]

\* The address row of a warehouse carries the first country's name and no
\* city; on conflict only country (and postalCode) are refreshed.
WarehouseAddresses(batch) ==
    [a \in {WarehouseAddressId(batch[id]) :
                id \in {i \in Ids(batch) : batch[i].countries}}
        |-> [id |-> a, city |-> Null, country |-> "Netherlands"]]

WarehouseAddressUpdateCols == {"country"}

WarehouseUpdateCols == {"code", "addressId"}

WarehousesJob(batch) ==
    LET warehouse_data ==
            [id \in Ids(batch) |-> TransformWarehouse(batch[id])]
    IN  /\ db' = IF Ids(batch) = {} THEN db
                 ELSE [db EXCEPT
                         !.addresses =
                            Upsert(@, WarehouseAddresses(batch),
                                   WarehouseAddressUpdateCols),
                         !.warehouses =
                            Upsert(@, warehouse_data, WarehouseUpdateCols)]
        /\ run' = [kind |-> "warehouses",
                   exit |-> 0,
                   submitted |-> warehouse_data]
        /\ UNCHANGED schema
        /\ UNCHANGED notSync

(***************************************************************************)
(* populate_orders.py, populate_offboards.py                               *)
(***************************************************************************)
\* transform_order: employeeId is the receiver when the receiver is an
\* employee, else employee_id; warehouseId is the id of order['warehouse']
\* (the id of the object, or the scalar), else warehouse_id.
TransformOrder(order) ==
    [id |-> order.id,
     employeeId |->
        IF order.receiver_type = "employee" /\ Truthy(order.receiver_id)
          THEN order.receiver_id
        ELSE IF Truthy(order.employee_id) THEN order.employee_id
        ELSE Null,
     warehouseId |->
        IF Truthy(order.warehouse) THEN order.warehouse
        ELSE IF Truthy(order.warehouse_id) THEN order.warehouse_id
        ELSE Null]

OrderUpdateCols == {"employeeId", "warehouseId"}

OrdersAccepted(rows, d, sch) ==
    sch.fk =>
        /\ RefsOk(rows, "employeeId", Ids(d.employees))
        /\ RefsOk(rows, "warehouseId", Ids(d.warehouses))

\* main of populate_orders.py after the fetch: transform and upsert, with no
\* look at the employees or warehouses tables.
OrdersJob(batch) ==
    LET order_data == [id \in Ids(batch) |-> TransformOrder(batch[id])]
        accepted == OrdersAccepted(order_data, db, schema)
    IN  /\ db' = IF Ids(batch) # {} /\ accepted
                   THEN [db EXCEPT !.orders =
                            Upsert(@, order_data, OrderUpdateCols)]
                   ELSE db
        /\ run' = [kind |-> "orders",
                   exit |-> IF Ids(batch) = {} \/ accepted THEN 0 ELSE 1,
                   submitted |-> order_data]
        /\ UNCHANGED schema
        /\ UNCHANGED notSync

\* transform_offboard: employeeId is employee_id when it is truthy.
TransformOffboard(offboard) ==
    [id |-> offboard.id,
     employeeId |-> IF Truthy(offboard.employee_id) THEN offboard.employee_id
                    ELSE Null]

\* The filter of populate_offboards: a row is skipped when its employee_id
\* is set and is not an id of the employees table.
OffboardSkipped(row, valid_employee_ids) ==
    Truthy(row.employeeId) /\ row.employeeId \notin valid_employee_ids

OffboardUpdateCols == {"employeeId"}

OffboardsAccepted(rows, d, sch) ==
    /\ sch.fk => RefsOk(rows, "employeeId", Ids(d.employees))
    /\ sch.offboardEmployeeRequired =>
          \A id \in Ids(rows) : rows[id].employeeId # Null

\* main of populate_offboards.py after the fetch: transform, filter, and
\* upsert what is left (nothing is written when nothing is left).
OffboardsJob(batch) ==
    LET transformed == [id \in Ids(batch) |-> TransformOffboard(batch[id])]
        valid_employee_ids == Ids(db.employees)
        kept == {id \in Ids(batch) :
                    ~OffboardSkipped(transformed[id], valid_employee_ids)}
        offboard_data == [id \in kept |-> transformed[id]]
        accepted == OffboardsAccepted(offboard_data, db, schema)
    IN  /\ db' = IF kept # {} /\ accepted
                   THEN [db EXCEPT !.offboards =
                            Upsert(@, offboard_data, OffboardUpdateCols)]
                   ELSE db
        /\ run' = [kind |-> "offboards",
                   exit |-> IF kept = {} \/ accepted THEN 0 ELSE 1,
                   transformed |-> transformed,
                   submitted |-> offboard_data,
                   skipped |-> Cardinality(Ids(batch) \ kept)]
        /\ UNCHANGED schema
        /\ UNCHANGED notSync

SyncIdle ==
    /\ db = EmptyDb
    /\ run = NoRun
    /\ schema = [fk |-> FALSE, offboardEmployeeRequired |-> FALSE]

SyncInit ==
    /\ db = EmptyDb
    /\ run = NoRun
    /\ schema \in Schemas

(***************************************************************************)
(* The asset job against a database whose employees, offices and           *)
(* warehouses tables are filled by their jobs.                             *)
(***************************************************************************)
AssetStatuses == {"available"}

ListLocations ==
    {NoLocation,
     Location("employee", "E1"), Location("employee", "E9"),
     Location("office", "O1"), Location("office", "O9"),
     Location("warehouse", "W1"), Location("warehouse", "W99"),
     Location("vendor", "V1")}

Details ==
    {DetailFailed, Detail(NoLocation), Detail(Location("warehouse", "W1"))}

AssetIds == {"X1", "X2"}

\* What the API can hold for an asset: anything for X1; X2 is an asset in an
\* office or warehouse unknown to the database whose detail fetch fails.
AssetInputs ==
    [id \in AssetIds |->
        IF id = "X1"
          THEN [id : {id}, status : AssetStatuses, location : ListLocations,
                detail : Details]
          ELSE [id : {id}, status : AssetStatuses,
                location : {Location("office", "O9"),
                            Location("warehouse", "W99")},
                detail : {DetailFailed}]]

PlainEmployees ==
    [id \in {"E1"} |->
        {[id |-> id, manager_id |-> Null, office_id |-> Null,
          address |-> Null]}]

PlainOffices == [id \in {"O1"} |-> {[id |-> id, address |-> Null]}]

PlainWarehouses ==
    [id \in {"W1"} |-> {[id |-> id, code |-> "LDW", countries |-> FALSE]}]

RunAssetsJob == \E batch \in Batches(AssetInputs) : AssetsJob(batch)

RunPlainEmployeesJob ==
    \E batch \in Batches(PlainEmployees) : EmployeesJob(batch)

RunPlainOfficesJob == \E batch \in Batches(PlainOffices) : OfficesJob(batch)

RunPlainWarehousesJob ==
    \E batch \in Batches(PlainWarehouses) : WarehousesJob(batch)

InitAssets ==
    /\ SyncInit
    /\ ~schema.offboardEmployeeRequired
    /\ OrchIdle
    /\ FetchIdle
    /\ RestIdle

NextAssets ==
    \/ RunAssetsJob
    \/ RunPlainEmployeesJob
    \/ RunPlainOfficesJob
    \/ RunPlainWarehousesJob

SpecAssets == InitAssets /\ [][NextAssets]_vars

(***************************************************************************)
(* The employee, office, warehouse, order and offboard jobs run in any     *)
(* order, any number of times, against upstream data in which E1, O1, W1   *)
(* and A1 are records the API serves and E9, O9, W99 and A9 are ids that   *)
(* only occur as references.                                               *)
(***************************************************************************)
EmployeeInputs ==
    [id \in {"E1"} |->
        {[id |-> id, manager_id |-> Null, office_id |-> Null, address |-> Null],
         [id |-> id, manager_id |-> "E9", office_id |-> Null, address |-> Null],
         [id |-> id, manager_id |-> Null, office_id |-> "O1", address |-> "A1"],
         [id |-> id, manager_id |-> Null, office_id |-> "O9", address |-> Null]}]

OfficeInputs ==
    [id \in {"O1"} |-> [id : {id}, address : {Null, "A1", "A9"}]]

WarehouseInputs ==
    [id \in {"W1"} |-> [id : {id}, code : {"LDW"}, countries : BOOLEAN]]

OrderInputs ==
    [id \in {"B1"} |->
        {[id |-> id, receiver_type |-> "employee", receiver_id |-> "E1",
          employee_id |-> Null, warehouse |-> "W1", warehouse_id |-> Null],
         [id |-> id, receiver_type |-> "employee", receiver_id |-> "E9",
          employee_id |-> Null, warehouse |-> Null, warehouse_id |-> Null],
         [id |-> id, receiver_type |-> "office", receiver_id |-> "O1",
          employee_id |-> "E1", warehouse |-> Null, warehouse_id |-> "W99"]}]

OffboardInputs ==
    [id \in {"R1", "R2"} |->
        IF id = "R1" THEN [id : {id}, employee_id : {Null, "E1", "E9"}]
        ELSE [id : {id}, employee_id : {"E9"}]]

RunEmployeesJob == \E batch \in Batches(EmployeeInputs) : EmployeesJob(batch)

RunOfficesJob == \E batch \in Batches(OfficeInputs) : OfficesJob(batch)

RunWarehousesJob ==
    \E batch \in Batches(WarehouseInputs) : WarehousesJob(batch)

RunOrdersJob == \E batch \in Batches(OrderInputs) : OrdersJob(batch)

RunOffboardsJob == \E batch \in Batches(OffboardInputs) : OffboardsJob(batch)

InitSync == SyncInit /\ OrchIdle /\ FetchIdle /\ RestIdle

NextSync ==
    \/ RunEmployeesJob
    \/ RunOfficesJob
    \/ RunWarehousesJob
    \/ RunOrdersJob
    \/ RunOffboardsJob

SpecSync == InitSync /\ [][NextSync]_vars

(***************************************************************************)
(* The date columns.  Every transform reads created_at / updated_at of the *)
(* upstream record, parses them leniently and falls back to               *)
(* datetime.now(); every insert carries ON CONFLICT ... DO UPDATE SET with *)
(* a column list.  Times are integers: upstream dates lie in the past,     *)
(* the clock starts after them and advances with every write.             *)
(***************************************************************************)
Unparsable == -2

UpstreamTimes == 1..2

FirstNow == 3

\* the permissive timestamp parse: a missing (falsy) or unparsable date
\* leaves the default datetime.now().
ParseOrNow(date_str, now) ==
    IF date_str = Absent \/ date_str = Unparsable THEN now ELSE date_str

\* The scripts that write each table.
WritersOf ==
    [employees |-> {"populate_employees"},
     offices |-> {"populate_offices"},
     warehouses |-> {"populate_warehouses"},
     assets |-> {"populate_assets"},
     products |-> {"populate_products"},
     orders |-> {"populate_orders"},
     offboards |-> {"populate_offboards"},
     countries |-> {"populate_countries"},
     addresses |-> {"populate_addresses", "populate_employees",
                    "populate_warehouses", "populate_missing_addresses"}]

StampedTables == DOMAIN WritersOf

\* The writes whose createdAt and updatedAt are both datetime.now() / NOW():
\* the address rows of the employee, warehouse and missing-address scripts
\* and the country rows.
StampsNow(table, writer) ==
    \/ table = "countries"
    \/ table = "addresses" /\ writer # "populate_addresses"

\* The date columns of the row a transform makes of a record at time now.
\* eventDate is "orderDate" of an order (created_at, which is also its
\* createdAt) and "offboardDate" of an offboard (its own date field).
StampRow(table, writer, rec, now) ==
    IF StampsNow(table, writer)
      THEN [id |-> rec.id, createdAt |-> now, updatedAt |-> now,
            eventDate |-> Absent]
    ELSE IF table = "orders"
      THEN [id |-> rec.id,
            createdAt |-> ParseOrNow(rec.created_at, now),
            updatedAt |-> ParseOrNow(rec.updated_at, now),
            eventDate |-> ParseOrNow(rec.created_at, now)]
    ELSE IF table = "offboards"
      THEN [id |-> rec.id,
            createdAt |-> ParseOrNow(rec.created_at, now),
            updatedAt |-> ParseOrNow(rec.updated_at, now),
            eventDate |-> ParseOrNow(rec.event_date, now)]
    ELSE [id |-> rec.id,
          createdAt |-> ParseOrNow(rec.created_at, now),
          updatedAt |-> ParseOrNow(rec.updated_at, now),
          eventDate |-> Absent]

\* The date columns in the DO UPDATE SET list of each insert
\* (populate_missing_addresses inserts with ON CONFLICT DO NOTHING).
StampUpdateColsWithCreated(table, writer) == {"createdAt", "updatedAt"}

StampUpdateCols(table, writer) ==
    IF writer = "populate_missing_addresses" THEN {}
    ELSE IF table \in {"orders", "offboards"} THEN {"updatedAt", "eventDate"}
    ELSE {"updatedAt"}

StampInputs ==
    [id \in {"r1"} |->
        [id : {id},
         created_at : {Absent, Unparsable} \cup {1},
         updated_at : {Absent} \cup UpstreamTimes,
         event_date : {Absent} \cup {1}]]

StampInit ==
    /\ clock = FirstNow
    /\ ttable \in StampedTables
    /\ trows = EmptyTable
    /\ tlast = NoWrite

\* One run of a script that writes the table: it transforms the batch at
\* the current time and upserts it.
StampedWrite ==
    /\ clock < MaxClock
    /\ \E writer \in WritersOf[ttable], batch \in Batches(StampInputs) :
          LET rows == [id \in Ids(batch) |->
                          StampRow(ttable, writer, batch[id], clock)]
          IN  /\ trows' = Upsert(trows, rows, StampUpdateCols(ttable, writer))
              /\ tlast' = [writer |-> writer, batch |-> batch,
                           hit |-> Ids(trows) \cap Ids(batch)]
    /\ clock' = clock + 1
    /\ UNCHANGED ttable
    /\ UNCHANGED notStamp

InitStamp ==
    StampInit /\ OrchIdle /\ FetchIdle /\ SyncIdle /\ PureIdle /\ CountryIdle
    /\ WorkIdle /\ RateIdle /\ StartIdle

NextStamp == StampedWrite

SpecStamp == InitStamp /\ [][NextStamp]_vars

(***************************************************************************)
(* The PII redaction of populate_employees.py.  A string is the sequence   *)
(* of its characters; a field of the upstream record is present with a     *)
(* string or missing.                                                      *)
(***************************************************************************)
Missing == [has |-> FALSE, str |-> << >>]

Given(str) == [has |-> TRUE, str |-> str]

\* employee.get(key) or '': a missing, null or empty field gives ''.
OrEmpty(field) == IF field.has THEN field.str ELSE << >>

Mask == <<"*", "*", "*">>

NoEmail == Mask \o <<"@">> \o Mask \o <<".", "c", "o", "m">>

redact_name(name) ==
    IF Len(name) = 0 THEN Mask ELSE <<name[1]>> \o Mask

HasAt(email) == \E i \in 1..Len(email) : email[i] = "@"

\* email.split('@', 1): the split is at the first '@'.
FirstAt(email) ==
    CHOOSE i \in 1..Len(email) :
        email[i] = "@" /\ \A j \in 1..(i - 1) : email[j] # "@"

anonymize_email_unmasked(email) == email

anonymize_email(email) ==
    IF Len(email) = 0 \/ ~HasAt(email) THEN NoEmail
    ELSE LET local == SubSeq(email, 1, FirstAt(email) - 1)
             domain == SubSeq(email, FirstAt(email) + 1, Len(email))
         IN  IF Len(local) = 0 THEN Mask \o <<"@">> \o domain
             ELSE <<local[1]>> \o Mask \o <<"@">> \o domain

\* transform_employee, the three redacted columns.
TransformEmployeePII(employee) ==
    [firstName |-> redact_name(OrEmpty(employee.first_name)),
     lastName |-> redact_name(OrEmpty(employee.last_name)),
     email |-> anonymize_email(OrEmpty(employee.email))]

\* The strings of at most n characters over an alphabet.
Strings(alphabet, n) == UNION {[1..k -> alphabet] : k \in 0..n}

RawNames == {Missing} \cup {Given(n) : n \in Strings({"a", "b"}, MaxNameLen)}

RawEmails ==
    {Missing} \cup {Given(e) : e \in Strings({"a", "b", "@"}, MaxEmailLen)}

RawEmployees ==
    [first_name : RawNames, last_name : {Missing, Given(<<"b", "a">>)},
     email : RawEmails]

RedactInit ==
    /\ pfn = "transform_employee"
    /\ parg \in RawEmployees
    /\ pres = << >>
    /\ pdone = FALSE

RedactEmployee ==
    /\ pfn = "transform_employee"
    /\ ~pdone
    /\ pres' = TransformEmployeePII(parg)
    /\ pdone' = TRUE
    /\ UNCHANGED <<pfn, parg>>
    /\ UNCHANGED notPure

InitRedact ==
    RedactInit /\ OrchIdle /\ FetchIdle /\ SyncIdle /\ StampIdle /\ CountryIdle
    /\ WorkIdle /\ RateIdle /\ StartIdle

NextRedact == RedactEmployee

SpecRedact == InitRedact /\ [][NextRedact]_vars

(***************************************************************************)
(* The free-text scrubbers: scrub_text of populate_assets.py and           *)
(* scrub_pii_text of populate_offboards.py.  A text is a sequence of       *)
(* segments separated by words (" and "), so that no match spans two       *)
(* segments; each segment is one of the sample strings below, and what     *)
(* each regular expression matches among them is what re.search finds      *)
(* (every match covers its whole segment).                                 *)
(***************************************************************************)
Segments ==
    {"hello", "bob@example.com", "555-123-4567", "0612345678",
     "123-45-6789", "4111111111111111", "12 Main Street"}

\* \b[A-Za-z0-9._%+-]+@[A-Za-z0-9.-]+\.[A-Z|a-z]{2,}\b
EmailPattern == {"bob@example.com"}

\* \b\d{3}[-.]?\d{3}[-.]?\d{4}\b
PhonePattern1 == {"555-123-4567", "0612345678"}

\* \b\+?\d{1,3}[-.\s]?\(?\d{1,4}\)?[-.\s]?\d{1,4}[-.\s]?\d{1,9}\b
PhonePattern2 ==
    {"555-123-4567", "0612345678", "123-45-6789", "4111111111111111"}

\* \b\d{3}-\d{2}-\d{4}\b
SsnPattern == {"123-45-6789"}

\* \b\d{4}[-\s]?\d{4}[-\s]?\d{4}[-\s]?\d{4}\b
CardPattern == {"4111111111111111"}

\* [\+\(]?[1-9][0-9 .\-\(\)]{8,}[0-9]
OffboardPhonePattern == {"555-123-4567", "123-45-6789", "4111111111111111"}

\* \d+\s+[\w\s]+(?:Street|St|Avenue|...)\b
AddressPattern == {"12 Main Street"}

\* re.sub(pattern, repl, text)
ReSub(pattern, repl, text) ==
    [i \in DOMAIN text |-> IF text[i] \in pattern THEN repl ELSE text[i]]

scrub_text(text) ==
    IF text = << >> THEN text
    ELSE LET t1 == ReSub(EmailPattern, "[EMAIL_REDACTED]", text)
             t2 == ReSub(PhonePattern1, "[PHONE_REDACTED]", t1)
             t3 == ReSub(PhonePattern2, "[PHONE_REDACTED]", t2)
             t4 == ReSub(SsnPattern, "[SSN_REDACTED]", t3)
         IN  ReSub(CardPattern, "[CARD_REDACTED]", t4)

scrub_pii_text(text) ==
    IF text = << >> THEN text
    ELSE LET t1 == ReSub(EmailPattern, "[EMAIL_REDACTED]", text)
             t2 == ReSub(OffboardPhonePattern, "[PHONE_REDACTED]", t1)
         IN  ReSub(AddressPattern, "[ADDRESS_REDACTED]", t2)

ScrubbedFields == {"asset.notes", "offboard.reason", "offboard.notes"}

Texts == UNION {[1..k -> Segments] : k \in 0..MaxSegs}

ScrubInit ==
    /\ pfn \in ScrubbedFields
    /\ parg \in Texts
    /\ pres = << >>
    /\ pdone = FALSE

\* transform_asset: notes = scrub_text(notes or description)
ScrubAssetNotes ==
    /\ pfn = "asset.notes"
    /\ ~pdone
    /\ pres' = scrub_text(parg)
    /\ pdone' = TRUE
    /\ UNCHANGED <<pfn, parg>>
    /\ UNCHANGED notPure

\* transform_offboard: reason and notes go through scrub_pii_text when set.
ScrubOffboardText ==
    /\ pfn \in {"offboard.reason", "offboard.notes"}
    /\ ~pdone
    /\ pres' = scrub_pii_text(parg)
    /\ pdone' = TRUE
    /\ UNCHANGED <<pfn, parg>>
    /\ UNCHANGED notPure

InitScrub ==
    ScrubInit /\ OrchIdle /\ FetchIdle /\ SyncIdle /\ StampIdle /\ CountryIdle
    /\ WorkIdle /\ RateIdle /\ StartIdle

NextScrub == ScrubAssetNotes \/ ScrubOffboardText

SpecScrub == InitScrub /\ [][NextScrub]_vars

(***************************************************************************)
(* populate_countries.py.  The countries table has the primary key id and  *)
(* the unique column code (the insert names it as its conflict target).    *)
(***************************************************************************)
\* The country object of an employee's address, as extract_country_data
\* returns it; NoCountry when the address, the object, its id, its name or
\* its code is missing.
NoCountry == [id |-> Null, code |-> Null, name |-> Null]

CountryObjects ==
    [id : {"c1", "c2"}, code : {"NL", "DE"}, name : {"Netherlands", "Holland"}]

\* What a run reads, in the order of the employees: one country object or
\* none per address, the API serving one object per country id.
Fetched ==
    {f \in UNION {[1..k -> CountryObjects \cup {NoCountry}] :
                    k \in 0..MaxAddresses} :
        \A i, j \in DOMAIN f : f[i].id = f[j].id => f[i] = f[j]}

\* collect_unique_countries: the first country seen for an id is kept, in
\* the order of the employees.
RECURSIVE CollectUnique(_, _)
CollectUnique(fetched, k) ==
    IF k = 0 THEN << >>
    ELSE LET countries_dict == CollectUnique(fetched, k - 1)
             country_data == fetched[k]
         IN  IF country_data # NoCountry
                  /\ \A i \in DOMAIN countries_dict :
                        countries_dict[i].id # country_data.id
               THEN Append(countries_dict, country_data)
               ELSE countries_dict

collect_unique_countries(fetched) == CollectUnique(fetched, Len(fetched))

\* The insert is refused when two of its rows have the same code (ON
\* CONFLICT DO UPDATE cannot affect a row a second time) and when a row
\* with a new code has the id of a stored row (primary key).
CountriesAccepted(batch, table) ==
    /\ \A i, j \in DOMAIN batch : batch[i].code = batch[j].code => i = j
    /\ \A i \in DOMAIN batch :
          (\A r \in table : r.code # batch[i].code)
              => \A r \in table : r.id # batch[i].id

\* INSERT ... ON CONFLICT (code) DO UPDATE SET name = EXCLUDED.name, ...
UpsertByCode(table, batch) ==
    {IF \E i \in DOMAIN batch : batch[i].code = r.code
       THEN [r EXCEPT !.name =
                batch[CHOOSE i \in DOMAIN batch : batch[i].code = r.code].name]
       ELSE r : r \in table}
    \cup {batch[i] : i \in {j \in DOMAIN batch :
                              \A r \in table : r.code # batch[j].code}}

\* main of populate_countries.py: collect, then populate_countries (which
\* returns at once on an empty list); any exception makes it exit 1.
CountriesJob ==
    \E fetched \in Fetched :
        LET batch == collect_unique_countries(fetched)
            accepted == CountriesAccepted(batch, countries)
        IN  /\ countries' = IF batch # << >> /\ accepted
                              THEN UpsertByCode(countries, batch)
                              ELSE countries
            /\ crun' = [kind |-> "countries",
                        exit |-> IF batch = << >> \/ accepted THEN 0 ELSE 1,
                        fetched |-> fetched,
                        batch |-> batch]
            /\ UNCHANGED notCountry

CountryInit ==
    /\ countries = {}
    /\ crun = [kind |-> "none"]

InitCountries ==
    CountryInit /\ OrchIdle /\ FetchIdle /\ SyncIdle /\ StampIdle /\ PureIdle
    /\ WorkIdle /\ RateIdle /\ StartIdle

NextCountries == CountriesJob

SpecCountries == InitCountries /\ [][NextCountries]_vars

(***************************************************************************)
(* link_warehouse_addresses.py next to populate_warehouses.py.  The link   *)
(* job reads every warehouse row, maps its code to a (city, country) and   *)
(* points the warehouse at the address row of that city and country,       *)
(* inserting one under a generated id when none exists; everything is      *)
(* committed at the end.                                                   *)
(***************************************************************************)
\* Two of the eighteen entries of WAREHOUSE_LOCATIONS: no two entries name
\* the same (city, country).
WAREHOUSE_LOCATIONS ==
    [code \in {"LDW", "JER"} |->
        IF code = "LDW" THEN [city |-> "London", country |-> "United Kingdom"]
        ELSE [city |-> "Jersey", country |-> "United Kingdom"]]

\* `not wh_code or wh_code not in WAREHOUSE_LOCATIONS` skips the warehouse.
KnownCode(wh_code) == Truthy(wh_code) /\ wh_code \in DOMAIN WAREHOUSE_LOCATIONS

\* gen_random_uuid()::text: an id no address row carries yet.
Uuids == {"uuid1", "uuid2"}

NewUuid(addresses) == CHOOSE u \in Uuids : u \notin Ids(addresses)

\* SELECT id FROM addresses WHERE city = %s AND country = %s
ExistingAddresses(addresses, location) ==
    {a \in Ids(addresses) : /\ addresses[a].city = location.city
                            /\ addresses[a].country = location.country}

\* One pass of the loop body for the warehouse wh_id.
LinkWarehouse(d, wh_id) ==
    LET wh_code == d.warehouses[wh_id].code
    IN  IF ~KnownCode(wh_code) THEN d
        ELSE LET location == WAREHOUSE_LOCATIONS[wh_code]
                 existing == ExistingAddresses(d.addresses, location)
                 address_id == IF existing # {}
                                 THEN CHOOSE a \in existing : TRUE
                                 ELSE NewUuid(d.addresses)
                 addresses ==
                     IF existing # {} THEN d.addresses
                     ELSE d.addresses @@
                          (address_id :> [id |-> address_id,
                                          city |-> location.city,
                                          country |-> location.country])
             IN  [d EXCEPT !.addresses = addresses,
                           !.warehouses[wh_id].addressId = address_id]

\* for wh_id, wh_code in warehouses: each pass sees the rows written by the
\* passes before it.
RECURSIVE LinkWarehouses(_, _)
LinkWarehouses(d, warehouses) ==
    IF warehouses = {} THEN d
    ELSE LET wh_id == CHOOSE w \in warehouses : TRUE
         IN  LinkWarehouses(LinkWarehouse(d, wh_id), warehouses \ {wh_id})

create_warehouse_addresses ==
    /\ db' = LinkWarehouses(db, Ids(db.warehouses))
    /\ run' = [kind |-> "link", exit |-> 0]
    /\ UNCHANGED schema
    /\ UNCHANGED notSync

\* Warehouses as the API lists them: the code is absent, unknown to the
\* link job, or one of its codes, and two warehouses may carry the same one.
CodedWarehouseInputs ==
    [id \in {"W1", "W2"} |->
        [id : {id}, code : {Null, "XXX", "LDW", "JER"}, countries : BOOLEAN]]

RunCodedWarehousesJob ==
    \E batch \in Batches(CodedWarehouseInputs) : WarehousesJob(batch)

InitLink == SyncIdle /\ OrchIdle /\ FetchIdle /\ RestIdle

NextLink ==
    \/ RunCodedWarehousesJob
    \/ create_warehouse_addresses

SpecLink == InitLink /\ [][NextLink]_vars

(***************************************************************************)
(* The jobs that fetch per item on a ThreadPoolExecutor: populate_assets   *)
(* (asset details), populate_employees (employee addresses) and            *)
(* populate_missing_addresses.  Every item is submitted at once; the       *)
(* as_completed loop takes the futures in the order the workers finish and *)
(* builds the job's list from them; the write follows the loop.  The       *)
(* result of an item's fetch is part of the item: it is what the upstream  *)
(* answers for that item, whenever the worker asks.                        *)
(***************************************************************************)
\* A location with its location_detail: "none" (no detail), "named" (city
\* and a country with a name) or "unnamed" (no region and a country object
\* whose name is None).
LocationWith(type, id, location_detail) ==
    [location_type |-> type, location_id |-> id,
     location_detail |-> location_detail]

\* transform_asset renders the location as ', '.join(parts), where parts
\* gets country_data.get('name') when there is no region: a None there
\* makes join raise TypeError.
TransformAssetRaises(asset, detailed_location) ==
    LET location_data ==
            IF HasLocation(detailed_location) THEN detailed_location
            ELSE asset.location
    IN  HasLocation(location_data) /\ location_data.location_detail = "unnamed"

\* What GET /assets/<id> does: a status other than 200, a timeout, an
\* exception of requests, or 200 with a JSON body that is an object (with
\* or without a location) or a list.
DetailFetch(status, body, loc) ==
    [status |-> status, body |-> body, location |-> loc]

\* fetch_asset_detail: response.json() on 200, None otherwise.
FetchAssetDetail(fetch) ==
    IF fetch.status = "200" THEN Detail(fetch.location) ELSE DetailFailed

\* fetch_and_transform raises when the body is a non-empty list (it has no
\* .get) and when transform_asset raises on the location it is given.
WorkerRaises(item) ==
    \/ item.fetch.status = "200" /\ item.fetch.body = "list"
    \/ TransformAssetRaises(item.asset,
                            DetailedLocation(FetchAssetDetail(item.fetch)))

\* The except branch of the loop calls transform_asset(asset, None), outside
\* any try of the loop.
FallbackRaises(item) ==
    WorkerRaises(item) /\ TransformAssetRaises(item.asset, NoLocation)

\* The row the loop appends for an item: future.result(), or the row of the
\* except branch.
AssetResult(item) ==
    IF WorkerRaises(item) THEN TransformAsset(item.asset, NoLocation)
    ELSE TransformAsset(item.asset,
                        DetailedLocation(FetchAssetDetail(item.fetch)))

\* execute_values(cursor, query, rows): the rows of the list, keyed by id.
RowsOfHeadOnly(rows) ==
    [id \in {rows[i].id : i \in DOMAIN rows \cap {1}} |-> rows[1]]

RowsOf(rows) ==
    [id \in {rows[i].id : i \in DOMAIN rows} |->
        rows[CHOOSE i \in DOMAIN rows : rows[i].id = id]]

\* Two rows of one statement with the same conflict key: PostgreSQL refuses
\* to update a row twice in one ON CONFLICT DO UPDATE command.
Duplicated(rows) ==
    \E i, j \in DOMAIN rows : i # j /\ rows[i].id = rows[j].id

\* The validation loop of populate_assets on the rows collected.
ValidatedRows(d, asset_data) ==
    [id \in Ids(asset_data) |->
        ValidateAsset(asset_data[id], Ids(d.offices), Ids(d.warehouses))]

\* The upsert of the validated rows; a database error rolls back.
WriteAssetRows(d, sch, asset_data) ==
    IF AssetsAccepted(ValidatedRows(d, asset_data), d, sch)
      THEN [d EXCEPT !.assets =
               Upsert(@, ValidatedRows(d, asset_data), AssetUpdateCols)]
      ELSE d

\* One pass of the as_completed loop for the future of asset id.  When the
\* except branch raises, the exception leaves populate_assets, which rolls
\* back and re-raises: main exits 1.
CompleteAsset(id) ==
    /\ wjob = "assets"
    /\ wpc = "collect"
    /\ id \in wpending
    /\ wpending' = wpending \ {id}
    /\ IF FallbackRaises(witems[id])
         THEN /\ wpc' = "done"
              /\ run' = [kind |-> "assets", exit |-> 1, handed |-> 0]
              /\ UNCHANGED wresults
         ELSE /\ wresults' = Append(wresults, AssetResult(witems[id]))
              /\ UNCHANGED <<wpc, run>>
    /\ UNCHANGED <<wjob, witems, db, schema>>
    /\ UNCHANGED notWork

WriteAssets ==
    /\ wjob = "assets"
    /\ wpc = "collect"
    /\ wpending = {}
    /\ wpc' = "done"
    /\ db' = WriteAssetRows(db, schema, RowsOf(wresults))
    /\ run' = [kind |-> "assets",
               exit |-> IF AssetsAccepted(
                              ValidatedRows(db, RowsOf(wresults)), db, schema)
                          THEN 0 ELSE 1,
               handed |-> Len(wresults)]
    /\ UNCHANGED <<wjob, witems, wpending, wresults, schema>>
    /\ UNCHANGED notWork

\* The address object the upstream holds under an address id.
UpstreamAddress(id) ==
    [id |-> id,
     city |-> IF id = "A1" THEN "Utrecht" ELSE "Berlin",
     country |-> IF id = "A1" THEN "Netherlands" ELSE "Germany"]

\* None in the place of an address.
NoAddress == [id |-> Null, city |-> Null, country |-> Null]

\* What GET /employees/<id>/addresses does: 404, another error status, a
\* timeout, or 200 having a body that has no data ("empty"), an address whose
\* country is an object ("address") or one whose country is a string
\* ("country_string").
AddressFetch(status, body, id) == [status |-> status, body |-> body, id |-> id]

\* fetch_employee_address of populate_employees.py: the address on 200 having
\* data, None on 404, on a timeout and on a RequestException.
FetchEmployeeAddress(fetch) ==
    IF fetch.status = "200" /\ fetch.body = "address"
      THEN UpstreamAddress(fetch.id) ELSE NoAddress

\* address_data.get('country', {}).get('name') on a string raises
\* AttributeError, which neither except clause of the function catches.
AddressWorkerRaises(fetch) ==
    fetch.status = "200" /\ fetch.body = "country_string"

\* The pair the loop appends: future.result(), or on an exception
\* (transform_employee(emp, None), None).
EmployeeResult(item) ==
    LET address_data == IF AddressWorkerRaises(item.fetch) THEN NoAddress
                        ELSE FetchEmployeeAddress(item.fetch)
    IN  [id |-> item.id,
         row |-> TransformEmployee(
                    item.employee,
                    address_data.id),
         address_data |-> address_data]

HasAddressData(result) == result.address_data # NoAddress

\* addresses_to_create of populate_employees: in the order of results.
AddressesToCreate(collected) ==
    LET having == SelectSeq(collected, HasAddressData)
    IN  [i \in DOMAIN having |-> having[i].address_data]

EmployeeData(collected) == [i \in DOMAIN collected |-> collected[i].row]

\* The two writes of populate_employees: the address rows, committed, then
\* the employee rows.  An error in the first leaves nothing written.
WriteEmployeeRows(d, sch, collected) ==
    IF Duplicated(AddressesToCreate(collected)) THEN d
    ELSE LET withAddresses ==
                 [d EXCEPT !.addresses =
                     Upsert(@, RowsOf(AddressesToCreate(collected)),
                            AddressUpdateCols)]
             employee_data == RowsOf(EmployeeData(collected))
         IN  IF EmployeesAccepted(employee_data, withAddresses, sch)
               THEN [withAddresses EXCEPT !.employees =
                        Upsert(@, employee_data, EmployeeUpdateCols)]
               ELSE withAddresses

EmployeeRowsWritten(d, sch, collected) ==
    /\ ~Duplicated(AddressesToCreate(collected))
    /\ EmployeesAccepted(
          RowsOf(EmployeeData(collected)),
          [d EXCEPT !.addresses =
              Upsert(@, RowsOf(AddressesToCreate(collected)),
                     AddressUpdateCols)],
          sch)

CompleteEmployee(id) ==
    /\ wjob = "employees"
    /\ wpc = "collect"
    /\ id \in wpending
    /\ wpending' = wpending \ {id}
    /\ wresults' = Append(wresults, EmployeeResult(witems[id]))
    /\ UNCHANGED <<wjob, wpc, witems, db, run, schema>>
    /\ UNCHANGED notWork

WriteEmployees ==
    /\ wjob = "employees"
    /\ wpc = "collect"
    /\ wpending = {}
    /\ wpc' = "done"
    /\ db' = WriteEmployeeRows(db, schema, wresults)
    /\ run' = [kind |-> "employees",
               exit |-> IF EmployeeRowsWritten(db, schema, wresults)
                          THEN 0 ELSE 1,
               handed |-> Len(wresults)]
    /\ UNCHANGED <<wjob, witems, wpending, wresults, schema>>
    /\ UNCHANGED notWork

\* fetch_employee_address of populate_missing_addresses.py: the address on
\* 200 having data and a country name, None otherwise and on any exception.
FetchMissingAddress(fetch) ==
    IF fetch.status = "200" /\ fetch.body \in {"address", "country_string"}
      THEN UpstreamAddress(fetch.id) ELSE NoAddress

\* get_employees_without_addresses
EmployeesWithoutAddresses(d) ==
    {e \in Ids(d.employees) : d.employees[e].addressId = Null}

\* addresses_to_create[address_id] = address: the entry assigned last stays.
AddressesById(collected) ==
    [id \in {collected[i].address.id : i \in DOMAIN collected} |->
        LET last == CHOOSE i \in DOMAIN collected :
                       /\ collected[i].address.id = id
                       /\ \A j \in DOMAIN collected :
                             collected[j].address.id = id => j <= i
        IN  collected[last].address]

\* employee_address_map[emp_id] = address_id
EmployeeAddressMap(collected) ==
    [e \in {collected[i].id : i \in DOMAIN collected} |->
        collected[CHOOSE i \in DOMAIN collected : collected[i].id = e].address.id]

\* INSERT ... ON CONFLICT (id) DO NOTHING for the addresses not in the
\* table yet, then UPDATE employees SET "addressId" for every mapped one.
WriteMissingAddresses(d, collected) ==
    LET addresses_to_create == AddressesById(collected)
        employee_address_map == EmployeeAddressMap(collected)
    IN  [d EXCEPT
           !.addresses = Upsert(@, addresses_to_create, {}),
           !.employees =
              [e \in Ids(@) |->
                  IF e \in Ids(employee_address_map)
                    THEN [@[e] EXCEPT !.addressId = employee_address_map[e]]
                    ELSE @[e]]]

\* The loop body: an employee whose fetch gave no address is not recorded.
CompleteMissing(id) ==
    /\ wjob = "missing"
    /\ wpc = "collect"
    /\ id \in wpending
    /\ wpending' = wpending \ {id}
    /\ wresults' =
          IF FetchMissingAddress(witems[id].fetch) = NoAddress THEN wresults
          ELSE Append(wresults,
                      [id |-> id,
                       address |-> FetchMissingAddress(witems[id].fetch)])
    /\ UNCHANGED <<wjob, wpc, witems, db, run, schema>>
    /\ UNCHANGED notWork

WriteMissing ==
    /\ wjob = "missing"
    /\ wpc = "collect"
    /\ wpending = {}
    /\ wpc' = "done"
    /\ db' = IF wresults = << >> THEN db
             ELSE WriteMissingAddresses(db, wresults)
    /\ run' = [kind |-> "missing", exit |-> 0, handed |-> Len(wresults)]
    /\ UNCHANGED <<wjob, witems, wpending, wresults, schema>>
    /\ UNCHANGED notWork

\* The inputs: two assets, two employees.  An item's id is its key in the
\* list, and an address id names one upstream address.
PoolLocations ==
    {NoLocation,
     LocationWith("employee", "E1", "named"),
     LocationWith("employee", "E1", "unnamed")}

PoolDetailFetches ==
    {DetailFetch("200", "object", NoLocation),
     DetailFetch("200", "object", LocationWith("employee", "E2", "named")),
     DetailFetch("200", "object", LocationWith("office", "O1", "unnamed")),
     DetailFetch("200", "list", NoLocation),
     DetailFetch("503", "object", NoLocation),
     DetailFetch("timeout", "object", NoLocation),
     DetailFetch("error", "object", NoLocation)}

PoolAssetInputs ==
    [id \in {"X1", "X2"} |->
        IF id = "X1"
          THEN {[id |-> id,
                 asset |-> [id |-> id, status |-> "active", location |-> loc],
                 fetch |-> f] : loc \in PoolLocations, f \in PoolDetailFetches}
          ELSE {[id |-> id,
                 asset |-> [id |-> id, status |-> "active",
                            location |->
                               LocationWith("employee", "E1", "named")],
                 fetch |-> f] :
                    f \in {DetailFetch("200", "object",
                               LocationWith("employee", "E2", "named")),
                           DetailFetch("503", "object", NoLocation)}}]

PoolAddressFetches(id) ==
    IF id = "E1"
      THEN {AddressFetch("404", "empty", Null),
            AddressFetch("timeout", "empty", Null),
            AddressFetch("500", "empty", Null),
            AddressFetch("200", "empty", Null),
            AddressFetch("200", "country_string", "A1"),
            AddressFetch("200", "address", "A1"),
            AddressFetch("200", "address", "A2")}
      ELSE {AddressFetch("404", "empty", Null),
            AddressFetch("200", "address", "A1")}

PoolEmployeeInputs ==
    [id \in {"E1", "E2"} |->
        {[id |-> id,
          employee |-> [id |-> id, manager_id |-> Null, office_id |-> Null],
          fetch |-> f] : f \in PoolAddressFetches(id)}]

PoolMissingInputs(d) ==
    [id \in EmployeesWithoutAddresses(d) |->
        {[id |-> id, fetch |-> f] : f \in PoolAddressFetches(id)}]

\* executor.submit for every item: main returns before that when the list
\* is empty.
Submit(job, items) ==
    /\ Ids(items) # {}
    /\ wjob' = job
    /\ wpc' = "collect"
    /\ witems' = items
    /\ wpending' = Ids(items)
    /\ wresults' = << >>
    /\ UNCHANGED syncVars
    /\ UNCHANGED notWork

StartAssets ==
    /\ wpc = "idle"
    /\ \E items \in Batches(PoolAssetInputs) : Submit("assets", items)

StartEmployees ==
    /\ wpc = "idle"
    /\ \E items \in Batches(PoolEmployeeInputs) : Submit("employees", items)

\* The missing-address job submits every employee without an address.
StartMissing ==
    /\ wpc = "idle"
    /\ \E items \in Batches(PoolMissingInputs(db)) :
          /\ Ids(items) = EmployeesWithoutAddresses(db)
          /\ Submit("missing", items)

\* The database a pooled job starts on: empty, or with the employees an
\* earlier employee job wrote without an address, and possibly the row of
\* address A1.
PoolDatabases ==
    LET employees ==
            [id \in {"E1", "E2"} |->
                TransformEmployee([id |-> id, manager_id |-> Null,
                                   office_id |-> Null], Null)]
    IN  {EmptyDb,
         [EmptyDb EXCEPT !.employees = employees],
         [EmptyDb EXCEPT !.employees = employees,
                         !.addresses = "A1" :> [UpstreamAddress("A1") EXCEPT
                                                   !.city = "Amsterdam"]]}

InitWorkers ==
    /\ db \in PoolDatabases
    /\ run = NoRun
    /\ schema = [fk |-> FALSE, offboardEmployeeRequired |-> FALSE]
    /\ WorkIdle /\ RateIdle /\ StartIdle
    /\ OrchIdle /\ FetchIdle /\ StampIdle /\ PureIdle /\ CountryIdle

NextWorkers ==
    \/ StartAssets
    \/ \E id \in {"X1", "X2"} : CompleteAsset(id)
    \/ WriteAssets
    \/ StartEmployees
    \/ \E id \in {"E1", "E2"} : CompleteEmployee(id)
    \/ WriteEmployees
    \/ StartMissing
    \/ \E id \in {"E1", "E2"} : CompleteMissing(id)
    \/ WriteMissing

SpecWorkers == InitWorkers /\ [][NextWorkers]_vars

(***************************************************************************)
(* The rate-limit delay of the three per-item fetch functions, seen from   *)
(* one worker of the pool: the worker calls the function for an item, the  *)
(* function issues its request and returns, the worker takes its next      *)
(* item.                                                                   *)
(***************************************************************************)
FetchFunctions == {"fetch_asset_detail", "fetch_employee_address",
                   "missing_fetch_employee_address"}

\* What requests.get does: it returns a response with a status, or raises
\* (a timeout, a connection error).
RequestOutcomes == {"200", "404", "500", "timeout", "raised"}

RequestRaised(outcome) == outcome \in {"timeout", "raised"}

Requested(log) == Len(SelectSeq(log, LAMBDA e : e.event = "request"))

\* The worker calls the function: requests.get(url, ..., timeout=10).
IssueRequest ==
    /\ rpc = "take"
    /\ Requested(rlog) < MaxRequests
    /\ \E outcome \in RequestOutcomes :
          /\ rout' = outcome
          /\ rlog' = Append(rlog, [event |-> "request", outcome |-> outcome])
    /\ rpc' = "responded"
    /\ UNCHANGED rfn
    /\ UNCHANGED notRate

\* time.sleep(0.01), then the function returns to the worker.
SleepAndReturn ==
    /\ rlog' = Append(rlog, [event |-> "sleep", outcome |-> rout])
    /\ rpc' = "take"
    /\ UNCHANGED <<rfn, rout>>
    /\ UNCHANGED notRate

\* populate_assets.fetch_asset_detail: the sleep is in the finally clause
\* of the try that holds the request.
AssetDetailFinally ==
    /\ rfn = "fetch_asset_detail"
    /\ rpc = "responded"
    /\ SleepAndReturn

\* populate_employees.fetch_employee_address: the same, in finally.
EmployeeAddressFinally ==
    /\ rfn = "fetch_employee_address"
    /\ rpc = "responded"
    /\ SleepAndReturn

\* populate_missing_addresses.fetch_employee_address: the sleep is the
\* statement after requests.get inside the try.
MissingAddressSleep ==
    /\ rfn = "missing_fetch_employee_address"
    /\ rpc = "responded"
    /\ ~RequestRaised(rout)
    /\ SleepAndReturn

\* ... and an exception of requests.get goes to `except Exception`, which
\* prints and falls through to return None.
MissingAddressExcept ==
    /\ rfn = "missing_fetch_employee_address"
    /\ rpc = "responded"
    /\ RequestRaised(rout)
    /\ rpc' = "take"
    /\ UNCHANGED <<rfn, rout, rlog>>
    /\ UNCHANGED notRate

RateInit ==
    /\ rfn \in FetchFunctions
    /\ rpc = "take"
    /\ rout = "none"
    /\ rlog = << >>

InitRate ==
    /\ RateInit
    /\ OrchIdle /\ FetchIdle /\ SyncIdle
    /\ StampIdle /\ PureIdle /\ CountryIdle /\ WorkIdle /\ StartIdle

NextRate ==
    \/ IssueRequest
    \/ AssetDetailFinally
    \/ EmployeeAddressFinally
    \/ MissingAddressSleep
    \/ MissingAddressExcept

SpecRate == InitRate /\ [][NextRate]_vars

(***************************************************************************)
(* The employee job run again and again: each run starts on the database   *)
(* as the run before it left it, with whatever the upstream answers then.  *)
(***************************************************************************)
RestartEmployees ==
    /\ wjob = "employees"
    /\ wpc = "done"
    /\ \E items \in Batches(PoolEmployeeInputs) : Submit("employees", items)

NextReruns ==
    \/ StartEmployees
    \/ \E id \in {"E1", "E2"} : CompleteEmployee(id)
    \/ WriteEmployees
    \/ RestartEmployees

SpecReruns == InitWorkers /\ [][NextReruns]_vars

(***************************************************************************)
(* One job process from its start to its exit: the module-level code that  *)
(* runs on import, the checks at the head of main, and then the requests   *)
(* and database calls of the run.                                          *)
(***************************************************************************)
MaxIo == 2

JOBS == {"populate_warehouses.py", "populate_offices.py",
         "populate_employees.py", "populate_addresses.py",
         "populate_countries.py", "populate_assets.py",
         "populate_orders.py", "populate_products.py",
         "populate_offboards.py", "populate_missing_addresses.py"}

\* What os.getenv gives after load_dotenv: None, an empty string, a value.
EnvValues == {Null, "", "set"}

OnlyUnset(v) == v = Null

\* `not VALUE`: None and the empty string.
NotSet(v) == v = Null \/ v = ""

\* The variables checked by module-level code, in the order of the checks.
ModuleChecks(job) ==
    CASE job = "populate_warehouses.py" -> <<"WORKWIZE_KEY">>
      [] job = "populate_missing_addresses.py" ->
            <<"DATABASE_URL", "WORKWIZE_KEY">>
      [] OTHER -> << >>

\* The variables checked at the head of main, in the order of the checks.
MainChecks(job) ==
    IF job = "populate_missing_addresses.py"
      THEN << >>
      ELSE <<"WORKWIZE_KEY", "DATABASE_URL">>

\* The first call a run makes once the checks have passed.
FirstIo(job) ==
    IF job \in {"populate_addresses.py", "populate_countries.py",
                "populate_missing_addresses.py"}
      THEN "database"
      ELSE "network"

FailsCheck(checks, env) == \E i \in 1..Len(checks) : NotSet(env[checks[i]])

\* Importing the script: sys.exit(1) in populate_warehouses, an uncaught
\* Exception in populate_missing_addresses, which the interpreter turns
\* into exit status 1.
ImportModule ==
    /\ spc = "import"
    /\ IF FailsCheck(ModuleChecks(sjob), senv)
         THEN spc' = "exited" /\ sexit' = 1
         ELSE spc' = "main" /\ sexit' = sexit
    /\ UNCHANGED <<sjob, senv, sio>>
    /\ UNCHANGED notStart

\* The head of main: sys.exit(1) for the first variable that is missing.
ValidateEnvironment ==
    /\ spc = "main"
    /\ IF FailsCheck(MainChecks(sjob), senv)
         THEN spc' = "exited" /\ sexit' = 1
         ELSE spc' = "run" /\ sexit' = sexit
    /\ UNCHANGED <<sjob, senv, sio>>
    /\ UNCHANGED notStart

\* One request or one database call of the run.
DoIo ==
    /\ spc = "run"
    /\ Len(sio) < MaxIo
    /\ \E kind \in {"network", "database"} :
         /\ sio = << >> => kind = FirstIo(sjob)
         /\ sio' = Append(sio, kind)
    /\ UNCHANGED <<sjob, senv, spc, sexit>>
    /\ UNCHANGED notStart

\* The run ends: main returns, or an except clause calls sys.exit(1).
ExitProcess ==
    /\ spc = "run"
    /\ spc' = "exited"
    /\ sexit' \in {0, 1}
    /\ UNCHANGED <<sjob, senv, sio>>
    /\ UNCHANGED notStart

StartInit ==
    /\ sjob \in JOBS
    /\ senv \in [{"WORKWIZE_KEY", "DATABASE_URL"} -> EnvValues]
    /\ spc = "import"
    /\ sio = << >>
    /\ sexit = NoExit

InitStart ==
    /\ StartInit
    /\ OrchIdle /\ FetchIdle /\ SyncIdle
    /\ StampIdle /\ PureIdle /\ CountryIdle /\ WorkIdle /\ RateIdle

NextStart ==
    \/ ImportModule
    \/ ValidateEnvironment
    \/ DoIo
    \/ ExitProcess

SpecStart == InitStart /\ [][NextStart]_vars

(***************************************************************************)
(* populate_products.py: the loop that makes the SKUs of a batch unique    *)
(* before the insert.  A SKU is a sequence of pieces, so that appending    *)
(* "-<product id>" is a concatenation; the empty sequence is the SKU of a  *)
(* product without sku, article_code and ean.                              *)
(***************************************************************************)
MaxProducts == 3

NoSku == << >>

ProductIds == {"1", "2", "3"}

ProductSkus == {NoSku, <<"A">>, <<"A", "-", "2">>}

\* f"{sku}-{product_id}"
SuffixedSku(sku, product_id) == sku \o <<"-", product_id>>

\* The rows transform_product gives for a fetched list: ids are distinct.
ProductBatches ==
    {b \in UNION {[1..k -> [id : ProductIds, sku : ProductSkus]] :
                    k \in 0..MaxProducts} :
        \A i, j \in DOMAIN b : i # j => b[i].id # b[j].id}

\* One pass of the loop body, for the row after those already cleaned.
CleanRow(row, seen_skus) ==
    IF row.sku # NoSku /\ row.sku \in seen_skus
      THEN [row EXCEPT !.sku = SuffixedSku(row.sku, row.id)]
      ELSE row

SeenAfter(row, seen_skus) ==
    IF row.sku # NoSku THEN seen_skus \cup {row.sku} ELSE seen_skus

ProductsInit ==
    /\ pfn = "populate_products"
    /\ parg \in ProductBatches
    /\ pres = [seen_skus |-> {}, cleaned_data |-> << >>]
    /\ pdone = FALSE

CleanNextRow ==
    /\ pfn = "populate_products"
    /\ ~pdone
    /\ Len(pres.cleaned_data) < Len(parg)
    /\ LET row == parg[Len(pres.cleaned_data) + 1]
       IN  pres' = [seen_skus |-> SeenAfter(row, pres.seen_skus),
                    cleaned_data |->
                        Append(pres.cleaned_data,
                               CleanRow(row, pres.seen_skus))]
    /\ UNCHANGED <<pfn, parg, pdone>>
    /\ UNCHANGED notPure

\* The loop is over: cleaned_data goes to execute_values.
InsertProducts ==
    /\ pfn = "populate_products"
    /\ ~pdone
    /\ Len(pres.cleaned_data) = Len(parg)
    /\ pdone' = TRUE
    /\ UNCHANGED <<pfn, parg, pres>>
    /\ UNCHANGED notPure

InitProducts ==
    ProductsInit /\ OrchIdle /\ FetchIdle /\ SyncIdle /\ StampIdle /\ CountryIdle
    /\ WorkIdle /\ RateIdle /\ StartIdle

NextProducts == CleanNextRow \/ InsertProducts

SpecProducts == InitProducts /\ [][NextProducts]_vars

(***************************************************************************)
(* transform_asset, the routing of the location id, on JSON values: a      *)
(* location payload is missing, something that is not an object, or an     *)
(* object with a location_type and a location_id; an id is null, a number  *)
(* or a string.                                                            *)
(***************************************************************************)
JsonNull == [null |-> TRUE]

JsonInt(n) == [int |-> n]

JsonStr(str) == [str |-> str]

JsonObject(type, id) == [location_type |-> type, location_id |-> id]

JsonIds == {JsonNull, JsonInt(0), JsonInt(7), JsonStr(""), JsonStr("E1")}

JsonTags ==
    {JsonNull, JsonStr("employee"), JsonStr("office"), JsonStr("warehouse"),
     JsonStr("customer")}

LocationPayloads ==
    {JsonNull, JsonStr("Amsterdam")}
      \cup {JsonObject(type, id) : type \in JsonTags, id \in JsonIds}

IsObject(v) == DOMAIN v = {"location_type", "location_id"}

\* Python truthiness: None, 0, '' and {} are falsy; the objects here have
\* two keys.
JsonTruthy(v) ==
    CASE v = JsonNull -> FALSE
      [] DOMAIN v = {"int"} -> v.int # 0
      [] DOMAIN v = {"str"} -> v.str # ""
      [] OTHER -> TRUE

DecimalDigits == <<"0", "1", "2", "3", "4", "5", "6", "7", "8", "9">>

\* str() of an id: the decimal digits of a number, a string as it is.
Str(v) == IF DOMAIN v = {"int"} THEN DecimalDigits[v.int + 1] ELSE v.str

RouteLocationListFirst(location, detailed_location) ==
    LET location_data ==
            IF JsonTruthy(location) THEN location ELSE detailed_location
        routed(tag) ==
            IF /\ JsonTruthy(location_data) /\ IsObject(location_data)
               /\ location_data.location_type = JsonStr(tag)
               /\ JsonTruthy(location_data.location_id)
              THEN Str(location_data.location_id) ELSE Null
    IN  [assignedToId |-> routed("employee"),
         officeId |-> routed("office"),
         warehouseId |-> routed("warehouse")]

\* transform_asset(asset, detailed_location), the three location columns.
RouteLocation(location, detailed_location) ==
    LET location_data ==
            IF JsonTruthy(detailed_location) THEN detailed_location
            ELSE location
        routed(tag) ==
            IF /\ JsonTruthy(location_data) /\ IsObject(location_data)
               /\ location_data.location_type = JsonStr(tag)
               /\ JsonTruthy(location_data.location_id)
              THEN Str(location_data.location_id) ELSE Null
    IN  [assignedToId |-> routed("employee"),
         officeId |-> routed("office"),
         warehouseId |-> routed("warehouse")]

RouteInit ==
    /\ pfn = "transform_asset"
    /\ parg \in [location : LocationPayloads,
                 detailed_location : LocationPayloads]
    /\ pres = << >>
    /\ pdone = FALSE

TransformAssetLocation ==
    /\ pfn = "transform_asset"
    /\ ~pdone
    /\ pres' = RouteLocation(parg.location, parg.detailed_location)
    /\ pdone' = TRUE
    /\ UNCHANGED <<pfn, parg>>
    /\ UNCHANGED notPure

InitRoute ==
    RouteInit /\ OrchIdle /\ FetchIdle /\ SyncIdle /\ StampIdle /\ CountryIdle
    /\ WorkIdle /\ RateIdle /\ StartIdle

NextRoute == TransformAssetLocation

SpecRoute == InitRoute /\ [][NextRoute]_vars

(***************************************************************************)
(* transform_offboard, the returnedAssets flag.  An offboard carries       *)
(* assets_count (absent, null or a number) and assets, a list of objects   *)
(* of which only the status is read.                                       *)
(***************************************************************************)
MaxOffboardAssets == 2

JsonAbsent == [absent |-> TRUE]

ReturnStatuses == {"returned", "received", "available"}

OffboardAssetStatuses == ReturnStatuses \cup {"in_use"}

OffboardPayloads ==
    [assets_count : {JsonAbsent, JsonNull, JsonInt(0), JsonInt(2)},
     assets : UNION {[1..k -> OffboardAssetStatuses] :
                        k \in 0..MaxOffboardAssets}]

\* offboard.get('assets_count', 0) == 0
CountIsZero(assets_count) ==
    assets_count = JsonAbsent \/ assets_count = JsonInt(0)

ReturnedAssets(offboard) ==
    LET all_returned ==
            \A i \in DOMAIN offboard.assets :
                offboard.assets[i] \in ReturnStatuses
    IN  \/ CountIsZero(offboard.assets_count)
        \/ offboard.assets # << >> /\ all_returned

ReturnedInit ==
    /\ pfn = "transform_offboard"
    /\ parg \in OffboardPayloads
    /\ pres = << >>
    /\ pdone = FALSE

TransformOffboardReturned ==
    /\ pfn = "transform_offboard"
    /\ ~pdone
    /\ pres' = [returnedAssets |-> ReturnedAssets(parg)]
    /\ pdone' = TRUE
    /\ UNCHANGED <<pfn, parg>>
    /\ UNCHANGED notPure

InitReturned ==
    ReturnedInit /\ OrchIdle /\ FetchIdle /\ SyncIdle /\ StampIdle
    /\ CountryIdle /\ WorkIdle /\ RateIdle /\ StartIdle

NextReturned == TransformOffboardReturned

SpecReturned == InitReturned /\ [][NextReturned]_vars

(***************************************************************************)
(* transform_employee, the status column and the isDeactivated column.     *)
(* Both are computed from the fields isDeactivated and is_deactivated of   *)
(* the upstream record, each of which is absent or holds a JSON value,     *)
(* written here as its JSON text.                                          *)
(***************************************************************************)
FlagValues == {"absent", "null", "false", "true", "0", "1", "\"\"", "\"yes\""}

\* Python truthiness of a JSON value.
FlagTruthy(v) == v \in {"true", "1", "\"yes\""}

\* employee.get(key): None for an absent key.
Get(v) == IF v = "absent" THEN "null" ELSE v

\* employee.get(key, False)
GetOrFalse(v) == IF v = "absent" THEN "false" ELSE v

\* a or b
PyOr(a, b) == IF FlagTruthy(a) THEN a ELSE b

StatusAndFlag(employee) ==
    [status |-> IF FlagTruthy(Get(employee.isDeactivated))
                  THEN "inactive" ELSE "active",
     isDeactivated |-> PyOr(GetOrFalse(employee.isDeactivated),
                            GetOrFalse(employee.is_deactivated))]

StatusInit ==
    /\ pfn = "transform_employee"
    /\ parg \in [isDeactivated : FlagValues, is_deactivated : FlagValues]
    /\ pres = << >>
    /\ pdone = FALSE

TransformEmployeeStatus ==
    /\ pfn = "transform_employee"
    /\ ~pdone
    /\ pres' = StatusAndFlag(parg)
    /\ pdone' = TRUE
    /\ UNCHANGED <<pfn, parg>>
    /\ UNCHANGED notPure

InitStatus ==
    StatusInit /\ OrchIdle /\ FetchIdle /\ SyncIdle /\ StampIdle
    /\ CountryIdle /\ WorkIdle /\ RateIdle /\ StartIdle

NextStatus == TransformEmployeeStatus

SpecStatus == InitStatus /\ [][NextStatus]_vars

InitOrch == OrchInit /\ FetchIdle /\ SyncIdle /\ RestIdle

NextOrch == OrchNext

SpecOrch == InitOrch /\ [][NextOrch]_vars

InitFetch == FetchInit /\ OrchIdle /\ SyncIdle /\ RestIdle

NextFetch == FetchNext

SpecFetch == InitFetch /\ [][NextFetch]_vars

(***************************************************************************)
(* Claims about the orchestrator, checked under SpecOrch.                  *)
(***************************************************************************)
HasFailed == \E k \in 1..Len(results) : ~results[k].success

\* C1: once a script has reported failure (non-zero return code, or an
\* exception while launching it) no later script of SCRIPTS is started, and
\* in every step the rows already committed by the scripts stay in place.
C1_HaltsAndKeepsRows ==
    [][ /\ \A n \in ScriptNames : committed[n] \subseteq committed'[n]
        /\ HasFailed => launched' = launched ]_vars

\* C1 witness: main has exited after a failure of a later stage, with scripts
\* left unstarted and rows of the first stage still committed.
C1_Witness ==
    /\ opc = "exited"
    /\ HasFailed
    /\ Len(results) >= 2
    /\ Len(launched) < Len(SCRIPTS)
    /\ committed["Warehouses"] # {}

ClaimedStages ==
    << "populate_warehouses.py", "populate_offices.py", "populate_employees.py",
       "populate_addresses.py", "populate_assets.py", "populate_orders.py",
       "populate_offboards.py" >>

TimesLaunched(s) == Cardinality({k \in 1..Len(launched) : launched[k] = s})

\* C2 (as claimed): in a run where no stage fails, each of the stages
\* warehouses, offices, employees, addresses, assets, orders and offboards is
\* run exactly once.
C2_AllStagesRunOnce ==
    (opc = "exited" /\ ~HasFailed) =>
        \A k \in 1..Len(ClaimedStages) : TimesLaunched(ClaimedStages[k]) = 1

(***************************************************************************)
(* Claims about the paginated fetchers, checked under SpecFetch.           *)
(***************************************************************************)
JobOver == fpc \in {"returned", "failed"}

LastResponse == responses[Len(responses)]

\* C3 (as claimed): for every collection fetcher, a page response with a
\* non-2xx status other than 404 ends the job with a non-zero exit and no
\* rows written, and a 404 yields an empty sequence and is not an error.
C3_ErrorStatusAbortsAnd404IsEmpty ==
    JobOver =>
        /\ LastResponse.status \notin {200, 404} =>
              (jobExit # 0 /\ written = << >>)
        /\ LastResponse.status = 404 => (all = << >> /\ jobExit = 0)

\* The fetcher went on to the next page after response k.
WentOn(k) == k < Len(responses) \/ fpc = "request"

\* The termination rule as the specification words it.
ClaimedStop(resp, p) ==
    \/ resp.shape = "array"
    \/ resp.next # "url"
    \/ (resp.last # Absent /\ CurrentPage(resp, p) >= resp.last)

\* C4 (as claimed): pages are requested in the order 1, 2, 3, ..., and the
\* fetcher stops exactly when the response just received has no links.next,
\* or has meta.last_page present with current_page >= last_page, or is a
\* bare array.
C4_StopsExactlyOnClaimedRule ==
    /\ requests = [k \in 1..Len(requests) |-> k]
    /\ \A k \in 1..Len(responses) :
          WentOn(k) <=>
              (responses[k].status = 200 /\ ~ClaimedStop(responses[k], k))

\* The termination rule with last_page counted only when it is non-zero.
AmendedStop(resp, p) ==
    \/ resp.shape = "array"
    \/ resp.next # "url"
    \/ (resp.last # Absent /\ resp.last # 0
            /\ CurrentPage(resp, p) >= resp.last)

\* C4 (amended): pages are requested in the order 1, 2, 3, ..., and the
\* fetcher stops exactly when the response just received has no links.next,
\* or has a non-zero meta.last_page with current_page >= last_page, or is a
\* bare array (or is an error response).
C4_StopsExactlyOnAmendedRule ==
    /\ requests = [k \in 1..Len(requests) |-> k]
    /\ \A k \in 1..Len(responses) :
          WentOn(k) <=>
              (responses[k].status = 200 /\ ~AmendedStop(responses[k], k))

\* C4 witness: a second page was requested after a first response that carried
\* links.next and a last_page beyond the current page, and the fetcher stopped
\* on a response whose current_page had reached last_page although it
\* carried links.next.
C4_Witness ==
    /\ JobOver
    /\ Len(responses) = 2
    /\ responses[1].next = "url" /\ responses[1].last = 2
    /\ responses[2].next = "url" /\ responses[2].last = 2
    /\ responses[2].cur = 2

\* A finite paginated source of N pages: every page answers 200, links.next
\* is present on every page but the last, and the pages that carry meta
\* report last_page = N and their own number as current_page.
FinitePaginatedSource(resps) ==
    LET N == Len(resps) IN
    /\ N >= 1
    /\ \A k \in 1..N :
          /\ resps[k].status = 200
          /\ resps[k].shape \in {"data", "value", "array"}
          /\ (k < N) => resps[k].next = "url"
          /\ (k = N) => resps[k].next # "url"
          /\ resps[k].shape # "array" =>
                (resps[k].last = N /\ resps[k].cur = k)

RECURSIVE ConcatPages(_, _)
ConcatPages(resps, k) ==
    IF k = 0 THEN << >>
    ELSE ConcatPages(resps, k - 1) \o Items(resps[k], k)

\* C5 (as claimed): on a finite paginated source of N pages the fetcher
\* issues exactly N page requests and returns the concatenation of the
\* records of pages 1..N in page order, whatever shapes (object with data or
\* value, bare array) the pages have.
C5_ReturnsAllPagesInOrder ==
    (JobOver /\ FinitePaginatedSource(responses)) =>
        /\ Len(requests) = Len(responses)
        /\ all = ConcatPages(responses, Len(responses))

(***************************************************************************)
(* Properties of the jobs' foreign keys (SpecSync, SpecAssets)             *)
(***************************************************************************)
\* The column `col` of every row of `table` is null or an id of `target`.
ColumnRefsOk(table, col, target) == RefsOk(db[table], col, Ids(db[target]))

AllReferencesValid ==
    /\ ColumnRefsOk("employees", "managerId", "employees")
    /\ ColumnRefsOk("employees", "officeId", "offices")
    /\ ColumnRefsOk("employees", "addressId", "addresses")
    /\ ColumnRefsOk("warehouses", "addressId", "addresses")
    /\ ColumnRefsOk("offices", "addressId", "addresses")
    /\ ColumnRefsOk("assets", "assignedToId", "employees")
    /\ ColumnRefsOk("assets", "officeId", "offices")
    /\ ColumnRefsOk("assets", "warehouseId", "warehouses")
    /\ ColumnRefsOk("orders", "employeeId", "employees")
    /\ ColumnRefsOk("orders", "warehouseId", "warehouses")
    /\ ColumnRefsOk("offboards", "employeeId", "employees")

\* The rows the last job submitted to the database carry a reference to a
\* row that does not exist (whether the database then stored them or
\* refused the batch).
DanglingSubmitted ==
    \/ /\ run.kind = "employees"
       /\ ~ /\ RefsOk(run.submitted, "managerId",
                      Ids(db.employees) \cup Ids(run.submitted))
            /\ RefsOk(run.submitted, "officeId", Ids(db.offices))
            /\ RefsOk(run.submitted, "addressId", Ids(db.addresses))
    \/ /\ run.kind \in {"offices", "warehouses"}
       /\ ~RefsOk(run.submitted, "addressId", Ids(db.addresses))
    \/ /\ run.kind = "assets"
       /\ ~ /\ RefsOk(run.submitted, "assignedToId", Ids(db.employees))
            /\ RefsOk(run.submitted, "officeId", Ids(db.offices))
            /\ RefsOk(run.submitted, "warehouseId", Ids(db.warehouses))
    \/ /\ run.kind = "orders"
       /\ ~ /\ RefsOk(run.submitted, "employeeId", Ids(db.employees))
            /\ RefsOk(run.submitted, "warehouseId", Ids(db.warehouses))
    \/ /\ run.kind = "offboards"
       /\ ~RefsOk(run.submitted, "employeeId", Ids(db.employees))

\* C6 (as claimed): after any sequence of jobs every foreign-key column of
\* every table is null or the id of a row of the referenced table, no job
\* submits a row with a dangling reference, and no job fails on one.
C6_NoDanglingReference ==
    /\ AllReferencesValid
    /\ ~DanglingSubmitted
    /\ run.kind # "none" /\ ~schema.offboardEmployeeRequired => run.exit = 0

(***************************************************************************)
(* Properties of the asset job (SpecAssets)                                *)
(***************************************************************************)
AssetRun == run.kind = "assets"

LocationColumns == {"assignedToId", "officeId", "warehouseId"}

\* C7: in the asset job's foreign-key validation every transformed row is
\* kept; an officeId (warehouseId) that is not an id of the offices
\* (warehouses) table becomes null and one that is present is kept; every
\* other column is unchanged; each counter equals the number of rows nulled
\* for its column; and the nulling never aborts the run: the job fails only
\* when the database refuses an assignedToId, and otherwise the validated
\* rows are what is stored.
C7_ValidationNullsKeepsCounts ==
    AssetRun =>
        /\ Ids(run.submitted) = Ids(run.transformed)
        /\ \A id \in Ids(run.transformed) :
              LET t == run.transformed[id]
                  v == run.submitted[id]
              IN  /\ v.officeId =
                        IF t.officeId \in Ids(db.offices) THEN t.officeId
                        ELSE Null
                  /\ v.warehouseId =
                        IF t.warehouseId \in Ids(db.warehouses)
                          THEN t.warehouseId ELSE Null
                  /\ v.id = t.id
                  /\ v.status = t.status
                  /\ v.assignedToId = t.assignedToId
                  /\ run.exit = 0 => db.assets[id] = v
        /\ run.invalid_offices =
              Cardinality({id \in Ids(run.transformed) :
                  run.transformed[id].officeId # run.submitted[id].officeId})
        /\ run.invalid_warehouses =
              Cardinality({id \in Ids(run.transformed) :
                  run.transformed[id].warehouseId
                      # run.submitted[id].warehouseId})
        /\ run.exit # 0 =>
              /\ schema.fk
              /\ \E id \in Ids(run.submitted) :
                    /\ run.submitted[id].assignedToId # Null
                    /\ run.submitted[id].assignedToId \notin Ids(db.employees)

\* C7 witness: a run over two assets, one in the existing warehouse W1 and
\* one pointing at the non-existent warehouse W99: the first keeps its
\* warehouseId, the second is stored with warehouseId null, and the
\* warehouse counter is 1.
C7_Witness ==
    /\ AssetRun
    /\ run.exit = 0
    /\ Ids(run.transformed) = {"X1", "X2"}
    /\ run.transformed["X1"].warehouseId = "W1"
    /\ db.assets["X1"].warehouseId = "W1"
    /\ run.transformed["X2"].warehouseId = "W99"
    /\ db.assets["X2"].warehouseId = Null
    /\ run.invalid_warehouses = 1
    /\ run.invalid_offices = 0

\* C8 (as claimed): every asset row persisted by the asset job has an
\* assignedToId that is null or the id of a row of the employees table
\* (rows are never deleted, so a reference valid at the write stays valid).
C8_AssignedToExistingEmployee ==
    \A id \in Ids(db.assets) :
        \/ db.assets[id].assignedToId = Null
        \/ db.assets[id].assignedToId \in Ids(db.employees)

\* C9 (as claimed): every row of the offboards table references an
\* existing employee (its employeeId is neither null nor dangling), and an
\* incoming offboard whose employee is not in the employees table is not
\* submitted at all.
C9_OffboardsReferenceExistingEmployee ==
    /\ \A id \in Ids(db.offboards) :
          db.offboards[id].employeeId \in Ids(db.employees)
    /\ run.kind = "offboards" =>
          \A id \in Ids(run.transformed) :
              run.transformed[id].employeeId \notin Ids(db.employees)
                  => id \notin Ids(run.submitted)

AtMostOneLocation(row) ==
    Cardinality({c \in LocationColumns : row[c] # Null}) <= 1

\* C10: every asset row of the database has at most one of assignedToId,
\* officeId and warehouseId non-null, and so has every row the asset job
\* transforms and every row it submits after the foreign-key nulling.
C10_AtMostOneLocationColumn ==
    /\ \A id \in Ids(db.assets) : AtMostOneLocation(db.assets[id])
    /\ AssetRun =>
          \A id \in Ids(run.transformed) :
              /\ AtMostOneLocation(run.transformed[id])
              /\ AtMostOneLocation(run.submitted[id])

\* C10 witness: an asset stored in an office was upserted again with a
\* warehouse location, and the stored row now has the warehouse only.
C10_Witness ==
    /\ AssetRun
    /\ run.exit = 0
    /\ \E id \in Ids(run.prior) :
          /\ run.prior[id].officeId # Null
          /\ db.assets[id].warehouseId # Null
          /\ db.assets[id].officeId = Null
          /\ db.assets[id].assignedToId = Null

(***************************************************************************)
(* Properties of the date columns (SpecStamp)                              *)
(***************************************************************************)
\* A write by the same script with the same batch as the write before it:
\* a second run against unchanged upstream data.
Rerun ==
    /\ tlast.writer # "none"
    /\ tlast'.writer = tlast.writer
    /\ tlast'.batch = tlast.batch
    /\ clock' # clock

\* C11 (as claimed): a second run against unchanged upstream data leaves
\* the table with the same rows and the same value in every column except
\* updatedAt, also when the upstream records lack date fields.
C11_RerunChangesOnlyUpdatedAt ==
    [][Rerun =>
          /\ Ids(trows') = Ids(trows)
          /\ \A id \in Ids(trows) :
                /\ trows'[id].id = trows[id].id
                /\ trows'[id].createdAt = trows[id].createdAt
                /\ trows'[id].eventDate = trows[id].eventDate]_vars

\* C12: a write never removes a row and never changes the id or the
\* createdAt of a row that is already there, so a row's createdAt stays the
\* value written by the run that inserted it.
C12_CreatedAtPreserved ==
    [][\A id \in Ids(trows) :
          /\ id \in Ids(trows')
          /\ trows'[id].id = trows[id].id
          /\ trows'[id].createdAt = trows[id].createdAt]_vars

\* C12 witness: the last write hit an existing row and carried another
\* createdAt (the record has no created_at, so the transform took the time
\* of the run) than the one the row keeps.
C12_Witness ==
    /\ tlast.writer # "none"
    /\ \E id \in tlast.hit :
          /\ tlast.batch[id].created_at = Absent
          /\ StampRow(ttable, tlast.writer, tlast.batch[id], clock - 1).createdAt
                = clock - 1
          /\ trows[id].createdAt < clock - 1

\* C13 (as claimed): every upsert that hits an existing row leaves it with
\* an updatedAt strictly later than the one it had, whether or not the
\* upstream record carries its own updated_at.
C13_UpdatedAtAdvances ==
    [][\A id \in Ids(trows) :
          (clock' # clock /\ id \in tlast'.hit
              /\ tlast'.writer # "populate_missing_addresses")
            => trows'[id].updatedAt > trows[id].updatedAt]_vars

(***************************************************************************)
(* Properties of a failing job (SpecSync)                                  *)
(***************************************************************************)
\* C14 (as claimed): a job whose write fails exits non-zero and leaves the
\* database as it was before the job started: every row it wrote in that
\* run is rolled back, and the rows of the other jobs are untouched.
C14_FailedJobLeavesDatabase ==
    [][run'.exit # 0 => db' = db]_vars

(***************************************************************************)
(* Properties of the employee redaction (SpecRedact)                       *)
(***************************************************************************)
\* The first character of a string, if it has one.
FirstChar(str) == SubSeq(str, 1, IF Len(str) = 0 THEN 0 ELSE 1)

\* The raw local part and the raw domain: what precedes and what follows
\* the first '@' (the whole string and nothing when there is no '@').
RawLocal(email) ==
    IF HasAt(email) THEN SubSeq(email, 1, FirstAt(email) - 1) ELSE email

RawDomain(email) ==
    IF HasAt(email) THEN SubSeq(email, FirstAt(email) + 1, Len(email))
    ELSE << >>

NamesMasked ==
    /\ pres.firstName = FirstChar(OrEmpty(parg.first_name)) \o Mask
    /\ pres.lastName = FirstChar(OrEmpty(parg.last_name)) \o Mask

EmailMasked ==
    pres.email = FirstChar(RawLocal(OrEmpty(parg.email))) \o Mask \o <<"@">>
                    \o RawDomain(OrEmpty(parg.email))

\* C15 (as claimed): for every raw input the stored firstName and lastName
\* are the first character of the raw name followed by ***, and the stored
\* email is the first character of the raw local part, ***@ and the raw
\* domain.
C15_RedactedFormsAlways ==
    pdone => NamesMasked /\ EmailMasked

\* C15 (amended): the stored names are the first character of the raw name
\* (none for an empty or missing name) followed by ***; the stored email is
\* the first character of the raw local part (none for an empty one), ***@
\* and the raw domain when the raw email contains '@', and the fixed
\* ***@***.com when the raw email is missing, empty or has no '@'.
C15_RedactedForms ==
    pdone =>
        /\ NamesMasked
        /\ HasAt(OrEmpty(parg.email)) => EmailMasked
        /\ ~HasAt(OrEmpty(parg.email)) => pres.email = NoEmail

\* C15 witness: an employee without first name whose email has no '@' has
\* been redacted to *** and ***@***.com.
C15_Witness ==
    /\ pdone
    /\ parg.first_name = Missing
    /\ parg.email = Given(<<"a", "b">>)
    /\ pres.firstName = Mask
    /\ pres.email = NoEmail

(***************************************************************************)
(* Properties of the free-text scrubbers (SpecScrub)                       *)
(***************************************************************************)
\* What the raw email, phone (two formats), SSN and card patterns match.
RawPatterns ==
    EmailPattern \cup PhonePattern1 \cup PhonePattern2 \cup SsnPattern
        \cup CardPattern

\* C16 (as claimed): the stored text of every scrubbed free-text field
\* (asset notes, offboard reason and notes) has no part that matches the
\* raw email, phone, SSN or card patterns.
C16_NoRawPatternStored ==
    pdone => \A i \in DOMAIN pres : pres[i] \notin RawPatterns

(***************************************************************************)
(* Properties of the country job (SpecCountries)                           *)
(***************************************************************************)
\* C17 (as claimed): no two rows of the countries table share a code; the
\* batch a run hands to the upsert holds at most one entry per code; and
\* when a run read two country objects with different ids and the same
\* code, the table holds one row of that code afterwards.
C17_CountriesUniqueByCode ==
    /\ \A r1, r2 \in countries : r1.code = r2.code => r1 = r2
    /\ crun.kind = "countries" =>
          /\ \A i, j \in DOMAIN crun.batch :
                crun.batch[i].code = crun.batch[j].code => i = j
          /\ \A i, j \in DOMAIN crun.fetched :
                (/\ crun.fetched[i] # NoCountry
                 /\ crun.fetched[j] # NoCountry
                 /\ crun.fetched[i].id # crun.fetched[j].id
                 /\ crun.fetched[i].code = crun.fetched[j].code)
                  => \E r \in countries : r.code = crun.fetched[i].code


(***************************************************************************)
(* C18.  Once the warehouse sync job and the address-linking job have both *)
(* run, in any order and any number of times, any two warehouses located   *)
(* in the same (city, country) have the same addressId, and the addresses  *)
(* table holds one row at most for that (city, country).                   *)
(***************************************************************************)
\* The two warehouses are rows of d whose codes map to one (city, country).
SameLocation(d, w1, w2) ==
    /\ {w1, w2} \subseteq Ids(d.warehouses)
    /\ KnownCode(d.warehouses[w1].code)
    /\ KnownCode(d.warehouses[w2].code)
    /\ WAREHOUSE_LOCATIONS[d.warehouses[w1].code]
         = WAREHOUSE_LOCATIONS[d.warehouses[w2].code]

\* Both jobs have run and have handled both warehouses: the sync job wrote
\* the two rows and the link job gave them the address it generated.
LinkedTogether(d, w1, w2) ==
    /\ SameLocation(d, w1, w2)
    /\ d.warehouses[w1].addressId \in Uuids
    /\ d.warehouses[w1].addressId = d.warehouses[w2].addressId

OneRowPerLocation(d) ==
    \A a1, a2 \in Ids(d.addresses) :
        /\ d.addresses[a1].city # Null
        /\ d.addresses[a1].city = d.addresses[a2].city
        /\ d.addresses[a1].country = d.addresses[a2].country
        => a1 = a2

\* Whichever of the two jobs runs next, two warehouses that are still in
\* one (city, country) still have the same addressId, and the location
\* still has a single address row.
C18_SameLocationSameAddress ==
    [][\A w1, w2 \in {"W1", "W2"} :
          LinkedTogether(db, w1, w2) /\ SameLocation(db', w1, w2)
          => /\ db'.warehouses[w1].addressId = db'.warehouses[w2].addressId
             /\ OneRowPerLocation(db')]_vars


(***************************************************************************)
(* C19.  Whatever the detail fetch of an asset does (200, another status,  *)
(* a timeout, an exception in the worker), the asset job ends with exactly *)
(* one row for the asset: a failed fetch gives the row of the list         *)
(* record's own location, the batch does not fail, and the rows handed to  *)
(* the upsert are as many as the assets fetched.  Stated for the runs in   *)
(* which no detail fetch returned 200.                                     *)
(***************************************************************************)
DetailFetchFailed(item) == item.fetch.status # "200" \/ WorkerRaises(item)

NoDetailFetched == \A id \in Ids(witems) : witems[id].fetch.status # "200"

C19_OneRowPerAsset ==
    wjob = "assets" /\ wpc = "done" /\ NoDetailFetched =>
        /\ run.exit = 0
        /\ run.handed = Cardinality(Ids(witems))
        /\ \A id \in Ids(witems) :
              Cardinality({i \in DOMAIN wresults : wresults[i].id = id}) = 1
        /\ \A i \in DOMAIN wresults :
              DetailFetchFailed(witems[wresults[i].id]) =>
                 wresults[i] = TransformAsset(witems[wresults[i].id].asset,
                                              NoLocation)

(***************************************************************************)
(* C20.  The database a pooled job leaves is a function of the items and   *)
(* of what their fetches returned: the order in which the workers finish   *)
(* does not show in it.                                                    *)
(***************************************************************************)
\* The addresses the fetches of the items returned, by the fetch function
\* of the job.
FetchedAddress(job, item) ==
    IF job = "employees" THEN EmployeeResult(item).address_data
    ELSE FetchMissingAddress(item.fetch)

WithAddress(job, items) ==
    {e \in Ids(items) : FetchedAddress(job, items[e]) # NoAddress}

AddressRows(job, items) ==
    [a \in {FetchedAddress(job, items[e]).id : e \in WithAddress(job, items)}
        |-> UpstreamAddress(a)]

\* The database after the job, from the items taken as a set.
JobResult(job, items, d) ==
    IF job = "assets"
      THEN IF \E id \in Ids(items) : FallbackRaises(items[id]) THEN d
           ELSE [d EXCEPT !.assets =
                    Upsert(@, ValidatedRows(d, [id \in Ids(items) |->
                                                   AssetResult(items[id])]),
                           AssetUpdateCols)]
    ELSE IF job = "employees"
      THEN IF \E e1, e2 \in WithAddress(job, items) :
                 /\ e1 # e2
                 /\ FetchedAddress(job, items[e1]).id
                      = FetchedAddress(job, items[e2]).id
             THEN d
             ELSE [d EXCEPT
                     !.addresses =
                        Upsert(@, AddressRows(job, items), AddressUpdateCols),
                     !.employees =
                        Upsert(@, [e \in Ids(items) |->
                                     EmployeeResult(items[e]).row],
                               EmployeeUpdateCols)]
    ELSE [d EXCEPT
            !.addresses = Upsert(@, AddressRows(job, items), {}),
            !.employees =
               [e \in Ids(@) |->
                   IF e \in WithAddress(job, items)
                     THEN [@[e] EXCEPT
                             !.addressId = FetchedAddress(job, items[e]).id]
                     ELSE @[e]]]

C21_DelayAfterEveryRequest ==
    rpc = "take" /\ rlog # << >> => rlog[Len(rlog)].event = "sleep"


(***************************************************************************)
(* C22.  Two runs of the employee job.  When the address endpoint answers  *)
(* 404 for E1, the run writes the row of E1 with addressId null.  When a   *)
(* later run finds that row and the endpoint answers with address A1, the  *)
(* run leaves row A1 in addresses and E1.addressId = A1, and the employees *)
(* table has no row that is not an employee of the runs: the row of E1 was *)
(* updated.  Stated for runs in which no two employees come with the same  *)
(* address id.                                                             *)
(***************************************************************************)
EmployeesWriteStep == wjob = "employees" /\ wpc = "collect" /\ wpc' = "done"

DistinctAddresses ==
    \A e1, e2 \in Ids(witems) :
        /\ e1 # e2
        /\ EmployeeResult(witems[e1]).address_data # NoAddress
        => EmployeeResult(witems[e1]).address_data
             # EmployeeResult(witems[e2]).address_data

TransientFailure(fetch) == fetch.status \in {"timeout", "500"}

C27_StoredAddressKept ==
    [][\A e \in Ids(witems) :
         /\ EmployeesWriteStep
         /\ TransientFailure(witems[e].fetch)
         /\ e \in Ids(db.employees)
         /\ db.employees[e].addressId # Null
         => /\ e \in Ids(db'.employees)
            /\ db'.employees[e].addressId = db.employees[e].addressId]_vars


(***************************************************************************)
(* C23.  A job started without the API token or without the database       *)
(* connection string in its environment makes no request and no database   *)
(* call, and when it has ended its exit status is not zero.                *)
(***************************************************************************)
EnvironmentIncomplete ==
    \E name \in DOMAIN senv : senv[name] \in {Null, ""}

C23_MissingEnvironmentIsFatal ==
    spc # "idle" /\ EnvironmentIncomplete =>
        /\ sio = << >>
        /\ spc # "run"
        /\ spc = "exited" => sexit # 0 /\ sexit # NoExit

\* A job whose checks are all in main has ended on the second of them:
\* the token is set, the connection string is an empty string.
C23_Witness ==
    /\ spc = "exited"
    /\ sjob = "populate_assets.py"
    /\ senv["WORKWIZE_KEY"] = "set"
    /\ senv["DATABASE_URL"] = ""
    /\ sexit = 1
    /\ sio = << >>


(***************************************************************************)
(* C24.  No run of a job removes a row: in every table the set of primary  *)
(* keys after a run contains the set before it, also when the run was      *)
(* handed a batch from which an upstream record has disappeared.           *)
(***************************************************************************)
C24_KeysOnlyGrow ==
    [][\A t \in DOMAIN db : Ids(db[t]) \subseteq Ids(db'[t])]_vars

\* Offboard R1 was stored by an earlier run; the last run of the offboard
\* job got a batch without R1, and the row is still there.
C24_Witness ==
    /\ run.kind = "offboards"
    /\ Ids(run.transformed) = {"R2"}
    /\ "R1" \in Ids(db.offboards)
    /\ "E1" \in Ids(db.employees)


(***************************************************************************)
(* C25.  In the batch handed to the insert of the product job, no two      *)
(* products have the same SKU, products without a SKU aside: a SKU that    *)
(* was suffixed with the product id differs from the SKU, original or      *)
(* suffixed, of every other product of the batch.                          *)
(***************************************************************************)
C25_SkusPairwiseDistinct ==
    pfn = "populate_products" /\ pdone =>
        \A i, j \in DOMAIN pres.cleaned_data :
            /\ i # j
            /\ pres.cleaned_data[i].sku # NoSku
            => pres.cleaned_data[i].sku # pres.cleaned_data[j].sku


(***************************************************************************)
(* C26.  transform_asset routes the location id by the tag of the location *)
(* it uses, which is the detailed location when one is supplied and the    *)
(* location of the list record otherwise.  With the tag employee, office   *)
(* or warehouse and an id that is present (not null, not 0, not empty),    *)
(* exactly the column named by the tag is set, to the id as a string; in   *)
(* every other case the three columns are null.                            *)
(***************************************************************************)
UsedLocation ==
    IF parg.detailed_location \notin {JsonNull, JsonStr("")}
      THEN parg.detailed_location ELSE parg.location

ColumnOfTag ==
    [employee |-> "assignedToId", office |-> "officeId",
     warehouse |-> "warehouseId"]

IdPresent(id) == id \in {JsonInt(7), JsonStr("E1")}

IdAsString(id) == IF id = JsonInt(7) THEN "7" ELSE "E1"

Routable(loc) ==
    /\ IsObject(loc)
    /\ \E tag \in DOMAIN ColumnOfTag : loc.location_type = JsonStr(tag)
    /\ IdPresent(loc.location_id)

C28_ReturnedFromAssetStatuses ==
    pfn = "transform_offboard" /\ pdone =>
        pres.returnedAssets =
            (\A i \in DOMAIN parg.assets :
                parg.assets[i] \in {"returned", "received", "available"})


(***************************************************************************)
(* C29.  In every row transform_employee produces, status is active or     *)
(* inactive, and it is inactive exactly when the isDeactivated column of   *)
(* the row is true, whatever the record holds in isDeactivated and in      *)
(* is_deactivated.                                                         *)
(***************************************************************************)
\* The column holds true, or a value Python takes for true.
StoredAsTrue(v) == v \in {"true", "1", "\"yes\""}

C29_StatusAgreesWithFlag ==
    pfn = "transform_employee" /\ pdone =>
        /\ pres.status \in {"active", "inactive"}
        /\ pres.status = "inactive" <=> StoredAsTrue(pres.isDeactivated)


(***************************************************************************)
(* C30.  The orchestrator exits with 0 exactly when it has run all six     *)
(* stages of SCRIPTS and each of them succeeded; when a stage failed it    *)
(* exits with 1, and the count of completed scripts in its summary is the  *)
(* number of stages that succeeded before the failing one.                 *)
(***************************************************************************)
StageFailed == \E k \in 1..Len(results) : ~results[k].success

AllSixSucceeded ==
    /\ Len(launched) = 6
    /\ Len(results) = 6
    /\ \A k \in 1..6 : results[k].name = SCRIPTS[k].name /\ results[k].success

C30_ExitStatusTellsOutcome ==
    opc = "exited" =>
        /\ exitStatus = 0 <=> AllSixSucceeded
        /\ StageFailed =>
             /\ exitStatus = 1
             /\ ~results[Len(results)].success
             /\ Successful(results) = Len(launched) - 1

\* The third stage failed after two successes: exit status 1, two completed.
C30_Witness ==
    /\ opc = "exited"
    /\ exitStatus = 1
    /\ Len(launched) = 3
    /\ results[1].success /\ results[2].success /\ ~results[3].success
    /\ Successful(results) = 2

====
